---- MODULE Spec2Model ----
(***************************************************************************)
(* Model of the AI product replacer: the React component App (App.tsx),    *)
(* its handlers and render guards, and the two service operations of       *)
(* services/geminiService.ts, analyzeReferenceImages and                   *)
(* replaceProductInImage, with the model service as the environment.       *)
(*                                                                         *)
(* Text is a sequence of chunks (TLA+ strings); a template literal is the  *)
(* concatenation of its literal chunks and its interpolated values.  A     *)
(* nullable value is a sequence of length 0 (null / undefined) or 1.       *)
(***************************************************************************)
EXTENDS Integers, Sequences, FiniteSets, TLC

VARIABLES
    app,          \* the useState fields of App
    apiKey,       \* process.env.API_KEY is set (fixed at build time)
    tasks,        \* the async handler invocations suspended at a model call
    calls,        \* history: the model calls issued since the run began
    lastOutcome,  \* history: how the latest replaceProductInImage ended
    gateDecision, \* history: what became of the run's quality gate
    attempts,     \* history: replaceProductInImage invocations of the run
    notified,     \* history: the onProgress messages of the latest invocation
    gateVerdict,  \* history: what the latest analyzeReferenceImages returned
    callers       \* the concurrent callers of replaceProductInImage

vars == <<app, apiKey, tasks, calls, lastOutcome, gateDecision, attempts,
          notified, gateVerdict, callers>>

-----------------------------------------------------------------------------
(* Bounds of the model *)

\* files offered by one file selection
MaxPick == 1
\* reference images the user holds in the App at once (the App takes up to
\* MaxProductImages)
MaxHeld == 1
\* a feedback retry is followed while the App's log holds fewer entries
MaxLog == 5
\* async handler invocations that can be suspended at the same time
MaxTasks == 2

-----------------------------------------------------------------------------
(* Values *)

None == <<>>
Some(v) == <<v>>
IsNull(o) == Len(o) = 0
Val(o) == o[1]

\* JavaScript truthiness of a string | null | undefined
TruthyStr(o) == ~IsNull(o) /\ Len(Val(o)) > 0

Whitespace == {" ", "\n"}

RECURSIVE TrimStart(_)
TrimStart(s) ==
    IF Len(s) > 0 /\ s[1] \in Whitespace THEN TrimStart(Tail(s)) ELSE s

RECURSIVE TrimEnd(_)
TrimEnd(s) ==
    IF Len(s) > 0 /\ s[Len(s)] \in Whitespace
    THEN TrimEnd(SubSeq(s, 1, Len(s) - 1))
    ELSE s

\* String.prototype.trim
Trim(s) == TrimEnd(TrimStart(s))

\* t occurs in s as a contiguous run of chunks
Contains(s, t) ==
    \E i \in 1..(Len(s) - Len(t) + 1) : SubSeq(s, i, i + Len(t) - 1) = t

\* Array.prototype.map
Map(f(_), s) == [i \in 1..Len(s) |-> f(s[i])]

\* Array.prototype.filter on the index: the elements whose index is not k
RECURSIVE FilterOut(_, _)
FilterOut(s, k) ==
    IF Len(s) = 0 THEN <<>>
    ELSE IF k = 1 THEN Tail(s)
    ELSE <<Head(s)>> \o FilterOut(Tail(s), k - 1)

\* Array.prototype.slice(0, n)
Slice0(s, n) == SubSeq(s, 1, IF Len(s) < n THEN Len(s) ELSE n)

-----------------------------------------------------------------------------
(* ImageFile.base64 values the file reader hands over *)

ImgA   == <<"data:", "image/jpeg", ";base64,", "AAAA">>
ImgB   == <<"data:", "image/png", ";base64,", "BBBB">>
\* an empty file: the payload is empty
ImgBad == <<"data:", "image/png", ";base64,">>

ProductFiles == {ImgA}
MarketingFiles == {ImgB, ImgBad}

\* variant: the payload group may be empty, as with /^data:(.+);base64,(.*)$/
SepPositions_EmptyPayload(s) == {k \in 3..Len(s) : s[k] = ";base64,"}

\* the largest k with s[k] = ";base64," that leaves a chunk on either side
\* (both groups of /^data:(.+);base64,(.+)$/ are greedy and non-empty)
SepPositions(s) == {k \in 3..(Len(s) - 1) : s[k] = ";base64,"}

Max(S) == CHOOSE x \in S : \A y \in S : y <= x

fileToGenerativePart(base64) ==
    IF Len(base64) > 0 /\ base64[1] = "data:" /\ SepPositions(base64) # {}
    THEN LET k == Max(SepPositions(base64))
         IN [ok |-> TRUE,
             part |-> [kind |-> "inlineData",
                       mimeType |-> SubSeq(base64, 2, k - 1),
                       data |-> SubSeq(base64, k + 1, Len(base64)),
                       text |-> <<>>]]
    ELSE [ok |-> FALSE,
          part |-> [kind |-> "none", mimeType |-> <<>>, data |-> <<>>,
                    text |-> <<>>]]

InvalidFormatMsg == <<"Invalid base64 string format">>

TextPart(prompt) ==
    [kind |-> "text", mimeType |-> <<>>, data |-> <<>>, text |-> prompt]

InlinePart(mime, d) ==
    [kind |-> "inlineData", mimeType |-> mime, data |-> d, text |-> <<>>]

AllWellFormed(images) ==
    \A i \in 1..Len(images) : fileToGenerativePart(images[i]).ok

\* variant: the parts are collected in reverse
PartsOf_Reversed(images) ==
    [i \in 1..Len(images) |->
        fileToGenerativePart(images[Len(images) + 1 - i]).part]

\* productImages.map(fileToGenerativePart)
PartsOf(images) == [i \in 1..Len(images) |-> fileToGenerativePart(images[i]).part]

\* data:image/png;base64,${resultImage}
PngDataUrl(d) == <<"data:", "image/png", ";base64,">> \o d

\* productImages.map((img, i) => ({ label: `Product Image ${i + 1}`, ... }))
ProductLabels(images) ==
    [i \in 1..Len(images) |->
        [label |-> <<"Product Image ", ToString(i)>>, base64 |-> images[i]]]

-----------------------------------------------------------------------------
(* JavaScript values read out of the gate's JSON response *)

JUndefined == [t |-> "undefined", b |-> FALSE, s |-> <<>>, m |-> <<>>]
JNull      == [t |-> "null", b |-> FALSE, s |-> <<>>, m |-> <<>>]
JBool(x)   == [t |-> "boolean", b |-> x, s |-> <<>>, m |-> <<>>]
JString(x) == [t |-> "string", b |-> FALSE, s |-> x, m |-> <<>>]
\* members: a sequence of <<key, value>> in source order
JObject(members) == [t |-> "object", b |-> FALSE, s |-> <<>>, m |-> members]

\* if (value) ...
Truthy(v) ==
    CASE v.t = "boolean" -> v.b
      [] v.t = "string"  -> Len(v.s) > 0
      [] v.t = "object"  -> TRUE
      [] OTHER           -> FALSE

\* the string literal tokens of the JSON texts, and the strings they denote
StringLiterals ==
    {"\"areImagesSuitable\"", "\"reasoning\"", "\"clear and well lit\"",
     "\"busy background\"", "\"yes\""}

Unquote(tok) ==
    CASE tok = "\"areImagesSuitable\""  -> <<"areImagesSuitable">>
      [] tok = "\"reasoning\""          -> <<"reasoning">>
      [] tok = "\"clear and well lit\"" -> <<"clear and well lit">>
      [] tok = "\"busy background\""    -> <<"busy background">>
      [] tok = "\"yes\""                -> <<"yes">>

IsScalarToken(tok) == tok \in {"null", "true", "false"} \cup StringLiterals

ParseScalar(tok) ==
    CASE tok = "null"  -> JNull
      [] tok = "true"  -> JBool(TRUE)
      [] tok = "false" -> JBool(FALSE)
      [] OTHER         -> JString(Unquote(tok))

\* key : value (, key : value)*   with scalar values
RECURSIVE IsMembers(_)
IsMembers(t) ==
    /\ Len(t) >= 3
    /\ t[1] \in StringLiterals
    /\ t[2] = ":"
    /\ IsScalarToken(t[3])
    /\ \/ Len(t) = 3
       \/ Len(t) > 4 /\ t[4] = "," /\ IsMembers(SubSeq(t, 5, Len(t)))

RECURSIVE ParseMembers(_)
ParseMembers(t) ==
    <<  <<Unquote(t[1]), ParseScalar(t[3])>>  >>
      \o (IF Len(t) > 4 THEN ParseMembers(SubSeq(t, 5, Len(t))) ELSE <<>>)

\* JSON.parse on a token sequence: a scalar, or an object of scalar members;
\* anything else is a SyntaxError
JSONParse(t) ==
    IF Len(t) = 1 /\ IsScalarToken(t[1])
    THEN [ok |-> TRUE, value |-> ParseScalar(t[1])]
    ELSE IF Len(t) = 2 /\ t[1] = "{" /\ t[2] = "}"
    THEN [ok |-> TRUE, value |-> JObject(<<>>)]
    ELSE IF Len(t) > 2 /\ t[1] = "{" /\ t[Len(t)] = "}"
            /\ IsMembers(SubSeq(t, 2, Len(t) - 1))
    THEN [ok |-> TRUE, value |-> JObject(ParseMembers(SubSeq(t, 2, Len(t) - 1)))]
    ELSE [ok |-> FALSE, value |-> JUndefined]

\* value.key : the last member named key wins; a missing one is undefined
GetProp(v, key) ==
    LET hits == {i \in 1..Len(v.m) : v.m[i][1] = key}
    IN IF v.t = "object" /\ hits # {} THEN v.m[Max(hits)][2] ELSE JUndefined

\* reading a property of null or undefined throws a TypeError
PropThrows(v) == v.t \in {"null", "undefined"}

-----------------------------------------------------------------------------
(* The model service: what one generateContent call can answer *)

ErrorResp(reason) ==
    [kind |-> "error", reason |-> reason, text |-> None, candidates |-> <<>>]
\* response.text is the string, or undefined when the answer has no text part
TextResp(t) ==
    [kind |-> "ok", reason |-> <<>>, text |-> t, candidates |-> <<>>]
\* response.candidates, each candidate the parts of its content
PartsResp(cands) ==
    [kind |-> "ok", reason |-> <<>>, text |-> None, candidates |-> cands]
Pending ==
    [kind |-> "pending", reason |-> <<>>, text |-> None, candidates |-> <<>>]

Upstream == <<"503 service unavailable">>
TypeErrorMsg == <<"Cannot read properties of undefined (reading 'trim')">>

GateSuitable ==
    <<"{", "\"areImagesSuitable\"", ":", "true", ",",
      "\"reasoning\"", ":", "\"clear and well lit\"", "}">>
GateUnsuitable ==
    <<"{", "\"areImagesSuitable\"", ":", "false", ",",
      "\"reasoning\"", ":", "\"busy background\"", "}">>
GateNoFields == <<"{", "}">>
GateNotJson == <<"Sorry,", " ", "I cannot">>

GateResponses ==
    {ErrorResp(Upstream)}
      \cup {TextResp(Some(t)) : t \in {GateSuitable, GateUnsuitable, GateNoFields,
                                     GateNotJson}}

InstructionText == <<" ", "Replace one shoe with one shoe.", "\n">>
TextResponses ==
    {ErrorResp(Upstream), TextResp(None), TextResp(Some(InstructionText))}

CritiqueText == <<"The product matches.", " ">>
CritiqueResponses ==
    {ErrorResp(Upstream), TextResp(Some(CritiqueText))}

GenImage == <<"PNG1">>
GenImage2 == <<"PNG2">>
GenText == <<"I replaced the product.">>
GenRefusal == <<"I cannot edit this image.">>
ImagePart(d) == InlinePart(<<"image/png">>, d)

GenerationResponses ==
    {ErrorResp(Upstream), PartsResp(<<>>)}
      \cup {PartsResp(<<parts>>) :
              parts \in {<<TextPart(GenRefusal)>>,
                         <<ImagePart(GenImage), TextPart(GenText)>>,
                         <<ImagePart(GenImage), ImagePart(GenImage2)>>,
                         <<TextPart(<<>>)>>}}


-----------------------------------------------------------------------------
(* Prompt Builder: the template literals of geminiService.ts *)

QualityPrompt == <<"You are a professional photo quality analyst ...">>

ConsistencyPrompt == <<"You are a logical reasoning assistant ...">>

FeedbackAnalysisPrompt(feedback) ==
    <<"You are an AI art director ... USER FEEDBACK: \"">>
      \o feedback
      \o <<"\" ... Your output must be ONLY the single, revised instruction sentence.">>

BaseTextPrompt(n, analysisInstruction) ==
    <<"You are an expert photorealistic image editor AI ... Attached are ",
      ToString(n),
      " images of the new product for reference ... CRITICAL INSTRUCTION FROM PRE-ANALYSIS: \"">>
      \o analysisInstruction
      \o <<"\" ... YOU MUST output the modified image. An image output is mandatory.">>

RevisedNote == <<"\n\n---NOTE: This is a revised attempt based on user feedback ...">>

\* variant: the feedback text is quoted in the prompt of the revised attempt
GenerationPrompt_QuotingFeedback(feedback, n, analysisInstruction) ==
    IF TruthyStr(feedback)
    THEN BaseTextPrompt(n, analysisInstruction)
           \o <<"\n\n---PREVIOUS ATTEMPT FEEDBACK: The user was not satisfied. Address the following feedback: \"">>
           \o Val(feedback)
           \o <<"\" ...">>
    ELSE BaseTextPrompt(n, analysisInstruction)

GenerationPrompt(feedback, n, analysisInstruction) ==
    IF TruthyStr(feedback)
    THEN BaseTextPrompt(n, analysisInstruction) \o RevisedNote
    ELSE BaseTextPrompt(n, analysisInstruction)

NoDescription == <<"No description provided.">>

QualityCheckPrompt(analysisInstruction, resultText) ==
    <<"You are an expert Quality Assurance specialist ... Did the generation follow this critical instruction: \"">>
      \o analysisInstruction
      \o <<"\"? ... CRITICAL INSTRUCTION: \"">>
      \o analysisInstruction
      \o <<"\" EDITOR's DESCRIPTION: \"">>
      \o (IF TruthyStr(resultText) THEN Val(resultText) ELSE NoDescription)
      \o <<"\" Provide your final analysis as a single paragraph.">>

-----------------------------------------------------------------------------
(* Model calls and log entries *)

FlashModel == "gemini-2.5-flash"
ImageModel == "gemini-2.5-flash-image-preview"

\* one ai.models.generateContent call, with the answer it got (history)
Call(stage, model, parts, handler, attempt) ==
    [stage |-> stage, model |-> model, parts |-> parts, handler |-> handler,
     attempt |-> attempt, resp |-> Pending]

LogEntry(step, title, model, prompt, images, text, image) ==
    [step |-> step, title |-> title, model |-> model,
     input |-> [prompt |-> prompt, images |-> images],
     output |-> [text |-> text, image |-> image]]

MarketingLabel(base64) == [label |-> <<"Marketing Image">>, base64 |-> base64]

\* the images logged by the analysis and generation stages
StageImages(productImages, marketingImage) ==
    ProductLabels(productImages) \o <<MarketingLabel(marketingImage)>>

\* the images logged by the critique stage
CritiqueImages(productImages, marketingImage, resultImage) ==
    ProductLabels(productImages)
      \o <<[label |-> <<"Original Marketing Image">>, base64 |-> marketingImage],
           [label |-> <<"Generated Image">>, base64 |-> PngDataUrl(resultImage)]>>

-----------------------------------------------------------------------------
(* analyzeReferenceImages *)

GateKeyMsg == <<"API_KEY environment variable not set.">>
GateFailedMsg == <<"The AI failed to analyze the reference images.">>

NoVerdict ==
    [areImagesSuitable |-> JUndefined, reasoning |-> JUndefined,
     log |-> LogEntry(0, "none", "none", <<>>, <<>>, None, None)]

\* variant: the credential is not looked at before the call
analyzeReferenceImagesStart_KeyUnchecked(productImages, key) ==
    IF ~AllWellFormed(productImages)
    THEN [status |-> "thrown", message |-> InvalidFormatMsg, parts |-> <<>>]
    ELSE [status |-> "await", message |-> <<>>,
          parts |-> PartsOf(productImages) \o <<TextPart(QualityPrompt)>>]

\* up to the await of generateContent: the credential check and the part
\* construction are outside the try block, their errors reach the caller as is
analyzeReferenceImagesStart(productImages, key) ==
    IF ~key
    THEN [status |-> "thrown", message |-> GateKeyMsg, parts |-> <<>>]
    ELSE IF ~AllWellFormed(productImages)
    THEN [status |-> "thrown", message |-> InvalidFormatMsg, parts |-> <<>>]
    ELSE [status |-> "await", message |-> <<>>,
          parts |-> PartsOf(productImages) \o <<TextPart(QualityPrompt)>>]

\* variant: the reasoning returned is the whole response text
analyzeReferenceImagesResume_RawReasoning(productImages, resp) ==
    LET parsed == IF IsNull(resp.text)
                  THEN [ok |-> FALSE, value |-> JUndefined]
                  ELSE JSONParse(Val(resp.text))
    IN IF resp.kind = "error" \/ ~parsed.ok \/ PropThrows(parsed.value)
       THEN [status |-> "thrown", message |-> GateFailedMsg, verdict |-> NoVerdict]
       ELSE [status |-> "returned", message |-> <<>>,
             verdict |->
               [areImagesSuitable |-> GetProp(parsed.value, <<"areImagesSuitable">>),
                reasoning |-> JString(Val(resp.text)),
                log |-> LogEntry(1, "Reference Image Quality Check", FlashModel,
                                 QualityPrompt, ProductLabels(productImages),
                                 resp.text, None)]]

\* from the answer of generateContent to the return or the throw
analyzeReferenceImagesResume(productImages, resp) ==
    LET parsed == IF IsNull(resp.text)
                  THEN [ok |-> FALSE, value |-> JUndefined]
                  ELSE JSONParse(Val(resp.text))
    IN IF resp.kind = "error" \/ ~parsed.ok \/ PropThrows(parsed.value)
       THEN [status |-> "thrown", message |-> GateFailedMsg, verdict |-> NoVerdict]
       ELSE [status |-> "returned", message |-> <<>>,
             verdict |->
               [areImagesSuitable |-> GetProp(parsed.value, <<"areImagesSuitable">>),
                reasoning |-> GetProp(parsed.value, <<"reasoning">>),
                log |-> LogEntry(1, "Reference Image Quality Check", FlashModel,
                                 QualityPrompt, ProductLabels(productImages),
                                 resp.text, None)]]


-----------------------------------------------------------------------------
(* replaceProductInImage: its locals, and its code between two awaits *)

ReplaceKeyMsg ==
    <<"API_KEY environment variable not set. Please ensure it is configured.">>
AnalysisFailedMsg ==
    <<"The AI failed to analyze the images for logical consistency.">>
NoImageMsg ==
    <<"The AI model did not return an image. This can be an intermittent issue. Please try again.">>
QualityCheckPlaceholder ==
    <<"The AI quality check could not be completed due to an error.">>

\* variant: the generic message whatever the model said
RefusedMsg_Generic(resultText) ==
    <<"The AI model did not return an image. This can be an intermittent issue. Please try again.">>

\* `The AI model failed to generate an image and responded with: "${resultText}"`
RefusedMsg(resultText) ==
    <<"The AI model failed to generate an image and responded with: \"">>
      \o resultText \o <<"\"">>

\* the outer catch: `Failed to generate image: ${error.message}`
Wrapped(message) == <<"Failed to generate image: ">> \o message

\* the parameters and locals of one invocation; onProgress tells whether the
\* caller passed a progress callback
Frame(productImages, marketingImage, feedback, onProgress) ==
    [productImages |-> productImages, marketingImage |-> marketingImage,
     feedback |-> feedback, onProgress |-> onProgress, logs |-> <<>>,
     analysisInstruction |-> <<>>, currentStep |-> 1, resultImage |-> None,
     resultText |-> None]

NoFrame == Frame(<<>>, <<>>, None, FALSE)

NoResult == [image |-> None, text |-> None, qualityCheck |-> None, logs |-> <<>>]

\* what a stretch of code between two awaits ends in
Thrown(message) ==
    [status |-> "thrown", message |-> message, frame |-> NoFrame,
     stage |-> "none", model |-> "none", parts |-> <<>>, progress |-> <<>>,
     result |-> NoResult]
\* onProgress?.(progress) and then the await of generateContent: the message
\* is delivered when a callback was passed
Await(frame, stage, model, parts, progress) ==
    [status |-> "await", message |-> <<>>, frame |-> frame,
     stage |-> stage, model |-> model, parts |-> parts,
     progress |-> IF frame.onProgress THEN progress ELSE <<>>,
     result |-> NoResult]
Returned(result) ==
    [status |-> "returned", message |-> <<>>, frame |-> NoFrame,
     stage |-> "none", model |-> "none", parts |-> <<>>, progress |-> <<>>,
     result |-> result]

\* [...productParts, marketingPart, { text: prompt }]
PromptParts(f, prompt) ==
    PartsOf(f.productImages)
      \o <<fileToGenerativePart(f.marketingImage).part, TextPart(prompt)>>

\* variant: the consistency analysis runs whether or not there is feedback
replaceProductInImageStart_AlwaysConsistency(productImages, marketingImage, feedback, onProgress, key) ==
    LET f == Frame(productImages, marketingImage, feedback, onProgress)
    IN IF ~key THEN Thrown(ReplaceKeyMsg)
       ELSE IF ~AllWellFormed(productImages)
               \/ ~fileToGenerativePart(marketingImage).ok
       THEN Thrown(InvalidFormatMsg)
       ELSE Await(f, "consistency-analysis", FlashModel,
                  PromptParts(f, ConsistencyPrompt),
                  <<"Step 2/4: Analyzing for logical consistency...">>)

\* variant: onProgress(...) without the optional chaining, the TypeError of
\* a missing callback reaches the outer catch
replaceProductInImageStart_CallbackRequired(productImages, marketingImage, feedback, onProgress, key) ==
    LET f == Frame(productImages, marketingImage, feedback, onProgress)
    IN IF ~key THEN Thrown(ReplaceKeyMsg)
       ELSE IF ~AllWellFormed(productImages)
               \/ ~fileToGenerativePart(marketingImage).ok
       THEN Thrown(InvalidFormatMsg)
       ELSE IF ~onProgress
       THEN Thrown(Wrapped(<<"onProgress is not a function">>))
       ELSE IF TruthyStr(feedback)
       THEN Await(f, "feedback-analysis", FlashModel,
                  PromptParts(f, FeedbackAnalysisPrompt(Val(feedback))),
                  <<"Step 1/3: Analyzing user feedback...">>)
       ELSE Await(f, "consistency-analysis", FlashModel,
                  PromptParts(f, ConsistencyPrompt),
                  <<"Step 2/4: Analyzing for logical consistency...">>)

\* lines 152-224, up to the await of the analysis call
replaceProductInImageStart(productImages, marketingImage, feedback, onProgress, key) ==
    LET f == Frame(productImages, marketingImage, feedback, onProgress)
    IN IF ~key THEN Thrown(ReplaceKeyMsg)
       ELSE IF ~AllWellFormed(productImages)
               \/ ~fileToGenerativePart(marketingImage).ok
       THEN Thrown(InvalidFormatMsg)
       ELSE IF TruthyStr(feedback)
       THEN Await(f, "feedback-analysis", FlashModel,
                  PromptParts(f, FeedbackAnalysisPrompt(Val(feedback))),
                  <<"Step 1/3: Analyzing user feedback...">>)
       ELSE Await(f, "consistency-analysis", FlashModel,
                  PromptParts(f, ConsistencyPrompt),
                  <<"Step 2/4: Analyzing for logical consistency...">>)

\* variant: the error of the call is thrown on as it is
getAnalysisInstruction_Rethrowing(resp) ==
    IF resp.kind = "error"
    THEN [ok |-> FALSE, text |-> <<>>, message |-> resp.reason]
    ELSE IF IsNull(resp.text)
    THEN [ok |-> FALSE, text |-> <<>>, message |-> TypeErrorMsg]
    ELSE [ok |-> TRUE, text |-> Trim(Val(resp.text)), message |-> <<>>]

\* getAnalysisInstruction: the trimmed text, or its own error for any failure
getAnalysisInstruction(resp) ==
    IF resp.kind = "error" \/ IsNull(resp.text)
    THEN [ok |-> FALSE, text |-> <<>>, message |-> AnalysisFailedMsg]
    ELSE [ok |-> TRUE, text |-> Trim(Val(resp.text)), message |-> <<>>]

\* the feedback analysis call is made inline: its errors reach the outer catch
feedbackAnalysis(resp) ==
    IF resp.kind = "error"
    THEN [ok |-> FALSE, text |-> <<>>, message |-> resp.reason]
    ELSE IF IsNull(resp.text)
    THEN [ok |-> FALSE, text |-> <<>>, message |-> TypeErrorMsg]
    ELSE [ok |-> TRUE, text |-> Trim(Val(resp.text)), message |-> <<>>]

\* variant: the analysis entry is numbered by currentStep on both paths
AnalysisLogEntry_Counted(f, instruction) ==
    IF TruthyStr(f.feedback)
    THEN LogEntry(f.currentStep, "Feedback Analysis", FlashModel,
                  FeedbackAnalysisPrompt(Val(f.feedback)),
                  StageImages(f.productImages, f.marketingImage),
                  Some(instruction), None)
    ELSE LogEntry(f.currentStep, "Pre-analysis for Logical Consistency",
                  FlashModel, ConsistencyPrompt,
                  StageImages(f.productImages, f.marketingImage),
                  Some(instruction), None)

\* the log entry of the analysis stage that ran
AnalysisLogEntry(f, instruction) ==
    IF TruthyStr(f.feedback)
    THEN LogEntry(f.currentStep, "Feedback Analysis", FlashModel,
                  FeedbackAnalysisPrompt(Val(f.feedback)),
                  StageImages(f.productImages, f.marketingImage),
                  Some(instruction), None)
    ELSE LogEntry(2, "Pre-analysis for Logical Consistency", FlashModel,
                  ConsistencyPrompt,
                  StageImages(f.productImages, f.marketingImage),
                  Some(instruction), None)

\* variant: a failed analysis call is issued again
replaceProductInImageAfterAnalysis_Retrying(f, resp) ==
    LET a == IF TruthyStr(f.feedback) THEN feedbackAnalysis(resp)
             ELSE getAnalysisInstruction(resp)
        g == [f EXCEPT !.analysisInstruction = a.text,
                       !.logs = Append(f.logs, AnalysisLogEntry(f, a.text)),
                       !.currentStep = IF TruthyStr(f.feedback)
                                       THEN f.currentStep + 1
                                       ELSE f.currentStep]
        prompt == GenerationPrompt(f.feedback, Len(f.productImages), a.text)
    IN IF ~a.ok
       THEN IF TruthyStr(f.feedback)
            THEN Await(f, "feedback-analysis", FlashModel,
                       PromptParts(f, FeedbackAnalysisPrompt(Val(f.feedback))),
                       <<"Step 1/3: Analyzing user feedback...">>)
            ELSE Await(f, "consistency-analysis", FlashModel,
                       PromptParts(f, ConsistencyPrompt),
                       <<"Step 2/4: Analyzing for logical consistency...">>)
       ELSE Await(g, "generation", ImageModel, PromptParts(g, prompt),
                  IF TruthyStr(f.feedback)
                  THEN <<"Step 2/3: Generating new image...">>
                  ELSE <<"Step 3/4: Generating new image...">>)

\* from the answer of the analysis call to the await of the generation call
replaceProductInImageAfterAnalysis(f, resp) ==
    LET a == IF TruthyStr(f.feedback) THEN feedbackAnalysis(resp)
             ELSE getAnalysisInstruction(resp)
        g == [f EXCEPT !.analysisInstruction = a.text,
                       !.logs = Append(f.logs, AnalysisLogEntry(f, a.text)),
                       !.currentStep = IF TruthyStr(f.feedback)
                                       THEN f.currentStep + 1
                                       ELSE f.currentStep]
        prompt == GenerationPrompt(f.feedback, Len(f.productImages), a.text)
    IN IF ~a.ok THEN Thrown(Wrapped(a.message))
       ELSE Await(g, "generation", ImageModel, PromptParts(g, prompt),
                  IF TruthyStr(f.feedback)
                  THEN <<"Step 2/3: Generating new image...">>
                  ELSE <<"Step 3/4: Generating new image...">>)

\* variant: the scan keeps the first image and the first text it meets
RECURSIVE ScanParts_First(_, _)
ScanParts_First(parts, acc) ==
    IF Len(parts) = 0 THEN acc
    ELSE LET part == Head(parts)
         IN ScanParts_First(Tail(parts),
              IF part.kind = "inlineData"
              THEN (IF IsNull(acc.image)
                    THEN [acc EXCEPT !.image = Some(part.data)] ELSE acc)
              ELSE IF part.kind = "text" /\ Len(part.text) > 0
              THEN (IF IsNull(acc.text)
                    THEN [acc EXCEPT !.text = Some(part.text)] ELSE acc)
              ELSE acc)

\* for (const part of response.candidates[0].content.parts): every inline
\* part overwrites resultImage, every other part with text overwrites resultText
RECURSIVE ScanParts(_, _)
ScanParts(parts, acc) ==
    IF Len(parts) = 0 THEN acc
    ELSE LET part == Head(parts)
         IN ScanParts(Tail(parts),
              IF part.kind = "inlineData"
              THEN [acc EXCEPT !.image = Some(part.data)]
              ELSE IF part.kind = "text" /\ Len(part.text) > 0
              THEN [acc EXCEPT !.text = Some(part.text)]
              ELSE acc)

ScanResponse(resp) ==
    IF Len(resp.candidates) > 0
    THEN ScanParts(resp.candidates[1], [image |-> None, text |-> None])
    ELSE [image |-> None, text |-> None]

\* variant: the generation entry is numbered 3 on every path
GenerationLogEntry_Step3(f, scan) ==
    LogEntry(3,
             "Product Replacement Image Generation", ImageModel,
             GenerationPrompt(f.feedback, Len(f.productImages),
                              f.analysisInstruction),
             StageImages(f.productImages, f.marketingImage),
             scan.text,
             IF TruthyStr(scan.image) THEN Some(PngDataUrl(Val(scan.image)))
             ELSE None)

GenerationLogEntry(f, scan) ==
    LogEntry(IF TruthyStr(f.feedback) THEN 2 ELSE 3,
             "Product Replacement Image Generation", ImageModel,
             GenerationPrompt(f.feedback, Len(f.productImages),
                              f.analysisInstruction),
             StageImages(f.productImages, f.marketingImage),
             scan.text,
             IF TruthyStr(scan.image) THEN Some(PngDataUrl(Val(scan.image)))
             ELSE None)

\* [...productParts, originalPart, generatedPart, { text: prompt }]
CritiqueParts(f, resultImage, prompt) ==
    PartsOf(f.productImages)
      \o <<fileToGenerativePart(f.marketingImage).part,
           InlinePart(<<"image/png">>, resultImage), TextPart(prompt)>>

\* variant: an answer without an image is handed back as a result
replaceProductInImageAfterGeneration_NoThrow(f, resp) ==
    LET scan == ScanResponse(resp)
        g == [f EXCEPT !.resultImage = scan.image, !.resultText = scan.text,
                       !.logs = Append(f.logs, GenerationLogEntry(f, scan))]
    IN IF resp.kind = "error" THEN Thrown(Wrapped(resp.reason))
       ELSE IF ~TruthyStr(scan.image)
       THEN Returned([image |-> None, text |-> scan.text,
                      qualityCheck |-> None, logs |-> g.logs])
       ELSE Await(g, "quality-critique", FlashModel,
                  CritiqueParts(g, Val(scan.image),
                                QualityCheckPrompt(g.analysisInstruction,
                                                   scan.text)),
                  IF TruthyStr(f.feedback)
                  THEN <<"Step 3/3: Performing quality check...">>
                  ELSE <<"Step 4/4: Performing quality check...">>)

\* variant: the generation entry is not pushed to the log
replaceProductInImageAfterGeneration_NoLog(f, resp) ==
    LET scan == ScanResponse(resp)
        g == [f EXCEPT !.resultImage = scan.image, !.resultText = scan.text]
    IN IF resp.kind = "error" THEN Thrown(Wrapped(resp.reason))
       ELSE IF ~TruthyStr(scan.image)
       THEN Thrown(Wrapped(IF TruthyStr(scan.text)
                           THEN RefusedMsg(Val(scan.text))
                           ELSE NoImageMsg))
       ELSE Await(g, "quality-critique", FlashModel,
                  CritiqueParts(g, Val(scan.image),
                                QualityCheckPrompt(g.analysisInstruction,
                                                   scan.text)),
                  IF TruthyStr(f.feedback)
                  THEN <<"Step 3/3: Performing quality check...">>
                  ELSE <<"Step 4/4: Performing quality check...">>)

\* variant: logs is one array of the module, which every invocation in flight
\* pushes to and returns
replaceProductInImageAfterGeneration_SharedLogs(f, resp) ==
    LET scan == ScanResponse(resp)
        others == {i \in DOMAIN tasks :
                     tasks[i].pc = "await" /\ tasks[i].frame # f}
        shared == IF others = {} THEN f.logs
                  ELSE f.logs \o tasks[CHOOSE i \in others : TRUE].frame.logs
        g == [f EXCEPT !.resultImage = scan.image, !.resultText = scan.text,
                       !.logs = Append(shared, GenerationLogEntry(f, scan))]
    IN IF resp.kind = "error" THEN Thrown(Wrapped(resp.reason))
       ELSE IF ~TruthyStr(scan.image)
       THEN Thrown(Wrapped(IF TruthyStr(scan.text)
                           THEN RefusedMsg(Val(scan.text))
                           ELSE NoImageMsg))
       ELSE Await(g, "quality-critique", FlashModel,
                  CritiqueParts(g, Val(scan.image),
                                QualityCheckPrompt(g.analysisInstruction,
                                                   scan.text)),
                  IF TruthyStr(f.feedback)
                  THEN <<"Step 3/3: Performing quality check...">>
                  ELSE <<"Step 4/4: Performing quality check...">>)

\* from the answer of the generation call to the await of the critique call
replaceProductInImageAfterGeneration(f, resp) ==
    LET scan == ScanResponse(resp)
        g == [f EXCEPT !.resultImage = scan.image, !.resultText = scan.text,
                       !.logs = Append(f.logs, GenerationLogEntry(f, scan))]
    IN IF resp.kind = "error" THEN Thrown(Wrapped(resp.reason))
       ELSE IF ~TruthyStr(scan.image)
       THEN Thrown(Wrapped(IF TruthyStr(scan.text)
                           THEN RefusedMsg(Val(scan.text))
                           ELSE NoImageMsg))
       ELSE Await(g, "quality-critique", FlashModel,
                  CritiqueParts(g, Val(scan.image),
                                QualityCheckPrompt(g.analysisInstruction,
                                                   scan.text)),
                  IF TruthyStr(f.feedback)
                  THEN <<"Step 3/3: Performing quality check...">>
                  ELSE <<"Step 4/4: Performing quality check...">>)

\* variant: the critique entry is numbered 3 on every path
CritiqueLogEntry_Step3(f, qualityCheck) ==
    LogEntry(3,
             "AI Quality Check", FlashModel,
             QualityCheckPrompt(f.analysisInstruction, f.resultText),
             CritiqueImages(f.productImages, f.marketingImage,
                            Val(f.resultImage)),
             Some(qualityCheck), None)

CritiqueLogEntry(f, qualityCheck) ==
    LogEntry(IF TruthyStr(f.feedback) THEN 3 ELSE 4,
             "AI Quality Check", FlashModel,
             QualityCheckPrompt(f.analysisInstruction, f.resultText),
             CritiqueImages(f.productImages, f.marketingImage,
                            Val(f.resultImage)),
             Some(qualityCheck), None)

\* variant: a failed critique call is issued again
replaceProductInImageAfterCritique_Retrying(f, resp) ==
    IF resp.kind = "error" \/ IsNull(resp.text)
    THEN Await(f, "quality-critique", FlashModel,
               CritiqueParts(f, Val(f.resultImage),
                             QualityCheckPrompt(f.analysisInstruction,
                                                f.resultText)),
               <<"Step 4/4: Performing quality check...">>)
    ELSE Returned([image |-> f.resultImage, text |-> f.resultText,
                   qualityCheck |-> Some(Trim(Val(resp.text))),
                   logs |-> Append(f.logs,
                                   LogEntry(IF TruthyStr(f.feedback) THEN 3 ELSE 4,
                                            "AI Quality Check", FlashModel,
                                            QualityCheckPrompt(f.analysisInstruction, f.resultText),
                                            CritiqueImages(f.productImages, f.marketingImage,
                                                           Val(f.resultImage)),
                                            Some(Trim(Val(resp.text))), None))])

\* variant: without the inner try, a failed critique call fails the invocation
replaceProductInImageAfterCritique_Propagating(f, resp) ==
    IF resp.kind = "error" THEN Thrown(Wrapped(resp.reason))
    ELSE IF IsNull(resp.text) THEN Thrown(Wrapped(TypeErrorMsg))
    ELSE Returned([image |-> f.resultImage, text |-> f.resultText,
                   qualityCheck |-> Some(Trim(Val(resp.text))),
                   logs |-> Append(f.logs,
                                   LogEntry(IF TruthyStr(f.feedback) THEN 3 ELSE 4,
                                            "AI Quality Check", FlashModel,
                                            QualityCheckPrompt(f.analysisInstruction, f.resultText),
                                            CritiqueImages(f.productImages, f.marketingImage,
                                                           Val(f.resultImage)),
                                            Some(Trim(Val(resp.text))), None))])

\* variant: the critique entry is pushed after the inner try, also when the
\* call failed
replaceProductInImageAfterCritique_LoggingFailure(f, resp) ==
    IF resp.kind = "error" \/ IsNull(resp.text)
    THEN Returned([image |-> f.resultImage, text |-> f.resultText,
                   qualityCheck |-> Some(QualityCheckPlaceholder),
                   logs |-> Append(f.logs,
                                   LogEntry(IF TruthyStr(f.feedback) THEN 3 ELSE 4,
                                            "AI Quality Check", FlashModel,
                                            QualityCheckPrompt(f.analysisInstruction, f.resultText),
                                            CritiqueImages(f.productImages, f.marketingImage,
                                                           Val(f.resultImage)),
                                            Some(QualityCheckPlaceholder), None))])
    ELSE Returned([image |-> f.resultImage, text |-> f.resultText,
                   qualityCheck |-> Some(Trim(Val(resp.text))),
                   logs |-> Append(f.logs,
                                   LogEntry(IF TruthyStr(f.feedback) THEN 3 ELSE 4,
                                            "AI Quality Check", FlashModel,
                                            QualityCheckPrompt(f.analysisInstruction, f.resultText),
                                            CritiqueImages(f.productImages, f.marketingImage,
                                                           Val(f.resultImage)),
                                            Some(Trim(Val(resp.text))), None))])

\* getQualityCheckFeedback inside its own try: a failure leaves the placeholder
\* and no log entry
replaceProductInImageAfterCritique(f, resp) ==
    IF resp.kind = "error" \/ IsNull(resp.text)
    THEN Returned([image |-> f.resultImage, text |-> f.resultText,
                   qualityCheck |-> Some(QualityCheckPlaceholder),
                   logs |-> f.logs])
    ELSE Returned([image |-> f.resultImage, text |-> f.resultText,
                   qualityCheck |-> Some(Trim(Val(resp.text))),
                   logs |-> Append(f.logs,
                                   CritiqueLogEntry(f, Trim(Val(resp.text))))])


-----------------------------------------------------------------------------
(* App: the component state and its handlers (App.tsx) *)

MaxProductImages == 5

AppInit ==
    [productImages |-> <<>>, marketingImage |-> None, resultImage |-> None,
     isLoading |-> FALSE, loadingMessage |-> <<>>, error |-> None,
     resultText |-> None, qualityCheck |-> None, showRejectionForm |-> FALSE,
     rejectionFeedback |-> <<>>, logs |-> <<>>, isLogPanelOpen |-> FALSE,
     showImageWarning |-> FALSE, imageWarning |-> JString(<<>>)]

\* setProductImages(prev => [...prev, ...files].slice(0, 5))
handleProductFilesSelect(st, files) ==
    [st EXCEPT !.productImages = Slice0(st.productImages \o files,
                                        MaxProductImages)]

handleMarketingFileSelect(st, files) ==
    IF Len(files) > 0 THEN [st EXCEPT !.marketingImage = Some(files[1])] ELSE st

removeProductImage(st, index) ==
    [st EXCEPT !.productImages = FilterOut(st.productImages, index)]

removeMarketingImage(st) == [st EXCEPT !.marketingImage = None]

\* the render guards: while the log panel is open its overlay (fixed inset-0
\* z-50) lies over every other control
Covered(st) == st.isLogPanelOpen

\* variant: the button stays enabled while a run is loading
isGenerateDisabled_IgnoringLoading(st) ==
    IsNull(st.marketingImage) \/ Len(st.productImages) = 0

isGenerateDisabled(st) ==
    IsNull(st.marketingImage) \/ Len(st.productImages) = 0 \/ st.isLoading

ProductUploaderDisabled(st) == Len(st.productImages) >= MaxProductImages

MarketingUploaderShown(st) == IsNull(st.marketingImage)

WarningShown(st) == st.showImageWarning /\ ~st.isLoading

ResultShown(st) ==
    ~st.isLoading /\ IsNull(st.error) /\ ~st.showImageWarning
      /\ TruthyStr(st.resultImage)

\* {error && ( ... )}
ErrorShown(st) == TruthyStr(st.error)

\* variant: without the finally block a failure leaves the loading flag set
Settle_NoFinally(st, r) ==
    IF r.status = "await" THEN [st EXCEPT !.loadingMessage = r.progress]
    ELSE IF r.status = "thrown"
    THEN [st EXCEPT !.error = Some(r.message)]
    ELSE LET res == r.result
         IN [st EXCEPT
               !.resultImage = IF TruthyStr(res.image)
                               THEN Some(PngDataUrl(Val(res.image))) ELSE @,
               !.resultText = IF TruthyStr(res.text) THEN res.text ELSE @,
               !.qualityCheck = IF TruthyStr(res.qualityCheck)
                                THEN res.qualityCheck ELSE @,
               !.logs = @ \o res.logs,
               !.error = IF ~TruthyStr(res.image) /\ ~TruthyStr(res.text)
                         THEN Some(<<"The AI model did not return an image or text. Please try again.">>)
                         ELSE @,
               !.isLoading = FALSE,
               !.loadingMessage = <<>>]

\* variant: setLogs(result.logs) in place of the functional update
Settle_ReplacingLogs(st, r) ==
    IF r.status = "await" THEN [st EXCEPT !.loadingMessage = r.progress]
    ELSE IF r.status = "thrown"
    THEN [st EXCEPT !.error = Some(r.message), !.isLoading = FALSE,
                    !.loadingMessage = <<>>]
    ELSE LET res == r.result
         IN [st EXCEPT
               !.resultImage = IF TruthyStr(res.image)
                               THEN Some(PngDataUrl(Val(res.image))) ELSE @,
               !.resultText = IF TruthyStr(res.text) THEN res.text ELSE @,
               !.qualityCheck = IF TruthyStr(res.qualityCheck)
                                THEN res.qualityCheck ELSE @,
               !.logs = res.logs,
               !.error = IF ~TruthyStr(res.image) /\ ~TruthyStr(res.text)
                         THEN Some(<<"The AI model did not return an image or text. Please try again.">>)
                         ELSE @,
               !.isLoading = FALSE,
               !.loadingMessage = <<>>]

\* variant: setLogs(prev => [...result.logs, ...prev])
Settle_PrependingLogs(st, r) ==
    IF r.status = "await" THEN [st EXCEPT !.loadingMessage = r.progress]
    ELSE IF r.status = "thrown"
    THEN [st EXCEPT !.error = Some(r.message), !.isLoading = FALSE,
                    !.loadingMessage = <<>>]
    ELSE LET res == r.result
         IN [st EXCEPT
               !.resultImage = IF TruthyStr(res.image)
                               THEN Some(PngDataUrl(Val(res.image))) ELSE @,
               !.resultText = IF TruthyStr(res.text) THEN res.text ELSE @,
               !.qualityCheck = IF TruthyStr(res.qualityCheck)
                                THEN res.qualityCheck ELSE @,
               !.logs = res.logs \o @,
               !.error = IF ~TruthyStr(res.image) /\ ~TruthyStr(res.text)
                         THEN Some(<<"The AI model did not return an image or text. Please try again.">>)
                         ELSE @,
               !.isLoading = FALSE,
               !.loadingMessage = <<>>]

\* variant: the catch block empties the log as well
Settle_ClearingLogsInCatch(st, r) ==
    IF r.status = "await" THEN [st EXCEPT !.loadingMessage = r.progress]
    ELSE IF r.status = "thrown"
    THEN [st EXCEPT !.error = Some(r.message), !.logs = <<>>,
                    !.isLoading = FALSE, !.loadingMessage = <<>>]
    ELSE LET res == r.result
         IN [st EXCEPT
               !.resultImage = IF TruthyStr(res.image)
                               THEN Some(PngDataUrl(Val(res.image))) ELSE @,
               !.resultText = IF TruthyStr(res.text) THEN res.text ELSE @,
               !.qualityCheck = IF TruthyStr(res.qualityCheck)
                                THEN res.qualityCheck ELSE @,
               !.logs = @ \o res.logs,
               !.error = IF ~TruthyStr(res.image) /\ ~TruthyStr(res.text)
                         THEN Some(<<"The AI model did not return an image or text. Please try again.">>)
                         ELSE @,
               !.isLoading = FALSE,
               !.loadingMessage = <<>>]

\* variant: the loading flag is cleared in the catch block only
Settle_ClearedInCatchOnly(st, r) ==
    IF r.status = "await" THEN [st EXCEPT !.loadingMessage = r.progress]
    ELSE IF r.status = "thrown"
    THEN [st EXCEPT !.error = Some(r.message), !.isLoading = FALSE,
                    !.loadingMessage = <<>>]
    ELSE LET res == r.result
         IN [st EXCEPT
               !.resultImage = IF TruthyStr(res.image)
                               THEN Some(PngDataUrl(Val(res.image))) ELSE @,
               !.resultText = IF TruthyStr(res.text) THEN res.text ELSE @,
               !.qualityCheck = IF TruthyStr(res.qualityCheck)
                                THEN res.qualityCheck ELSE @,
               !.logs = @ \o res.logs,
               !.error = IF ~TruthyStr(res.image) /\ ~TruthyStr(res.text)
                         THEN Some(<<"The AI model did not return an image or text. Please try again.">>)
                         ELSE @]

\* the try / catch / finally of startGenerationProcess once the promise of
\* replaceProductInImage settles, or the progress callback while it is pending
Settle(st, r) ==
    IF r.status = "await" THEN [st EXCEPT !.loadingMessage = r.progress]
    ELSE IF r.status = "thrown"
    THEN [st EXCEPT !.error = Some(r.message), !.isLoading = FALSE,
                    !.loadingMessage = <<>>]
    ELSE LET res == r.result
         IN [st EXCEPT
               !.resultImage = IF TruthyStr(res.image)
                               THEN Some(PngDataUrl(Val(res.image))) ELSE @,
               !.resultText = IF TruthyStr(res.text) THEN res.text ELSE @,
               !.qualityCheck = IF TruthyStr(res.qualityCheck)
                                THEN res.qualityCheck ELSE @,
               !.logs = @ \o res.logs,
               !.error = IF ~TruthyStr(res.image) /\ ~TruthyStr(res.text)
                         THEN Some(<<"The AI model did not return an image or text. Please try again.">>)
                         ELSE @,
               !.isLoading = FALSE,
               !.loadingMessage = <<>>]

NotInvoked ==
    [status |-> "skipped", message |-> <<>>, frame |-> NoFrame,
     stage |-> "none", model |-> "none", parts |-> <<>>, progress |-> <<>>,
     result |-> NoResult]

\* startGenerationProcess, called with the productImages and marketingImage
\* of the render its caller closed over, up to its await; setLoadingMessage
\* is the progress callback it passes
startGenerationProcess(st, productImages, marketingImage, feedback, key) ==
    IF IsNull(marketingImage) THEN [app |-> st, r |-> NotInvoked]
    ELSE LET st1 == [st EXCEPT !.isLoading = TRUE, !.error = None,
                               !.showImageWarning = FALSE,
                               !.imageWarning = JString(<<>>)]
             r == replaceProductInImageStart(productImages, Val(marketingImage),
                                             feedback, TRUE, key)
         IN [app |-> Settle(st1, r), r |-> r]

UploadFirstMsg ==
    <<"Please upload at least one product image and a marketing image.">>

\* variant: the resets leave showImageWarning and imageWarning as they are
handleGenerate_KeepingWarning(st, key) ==
    IF IsNull(st.marketingImage) \/ Len(st.productImages) = 0
    THEN [app |-> [st EXCEPT !.error = Some(UploadFirstMsg)],
          status |-> "refused", parts |-> <<>>]
    ELSE LET st1 == [st EXCEPT
                       !.isLoading = TRUE,
                       !.loadingMessage =
                           <<"Step 1/4: Checking reference image quality...">>,
                       !.error = None, !.resultImage = None,
                       !.resultText = None, !.qualityCheck = None,
                       !.showRejectionForm = FALSE,
                       !.rejectionFeedback = <<>>, !.logs = <<>>]
             a == analyzeReferenceImagesStart(st.productImages, key)
         IN IF a.status = "thrown"
            THEN [app |-> [st1 EXCEPT !.error = Some(a.message),
                                      !.isLoading = FALSE],
                  status |-> "thrown", parts |-> <<>>]
            ELSE [app |-> st1, status |-> "await", parts |-> a.parts]

\* variant: the resets leave the result image of the previous run in place
handleGenerate_KeepingResult(st, key) ==
    IF IsNull(st.marketingImage) \/ Len(st.productImages) = 0
    THEN [app |-> [st EXCEPT !.error = Some(UploadFirstMsg)],
          status |-> "refused", parts |-> <<>>]
    ELSE LET st1 == [st EXCEPT
                       !.isLoading = TRUE,
                       !.loadingMessage =
                           <<"Step 1/4: Checking reference image quality...">>,
                       !.error = None,
                       !.resultText = None, !.qualityCheck = None,
                       !.showRejectionForm = FALSE,
                       !.rejectionFeedback = <<>>, !.logs = <<>>,
                       !.showImageWarning = FALSE,
                       !.imageWarning = JString(<<>>)]
             a == analyzeReferenceImagesStart(st.productImages, key)
         IN IF a.status = "thrown"
            THEN [app |-> [st1 EXCEPT !.error = Some(a.message),
                                      !.isLoading = FALSE],
                  status |-> "thrown", parts |-> <<>>]
            ELSE [app |-> st1, status |-> "await", parts |-> a.parts]

\* handleGenerate up to its await of analyzeReferenceImages
handleGenerate(st, key) ==
    IF IsNull(st.marketingImage) \/ Len(st.productImages) = 0
    THEN [app |-> [st EXCEPT !.error = Some(UploadFirstMsg)],
          status |-> "refused", parts |-> <<>>]
    ELSE LET st1 == [st EXCEPT
                       !.isLoading = TRUE,
                       !.loadingMessage =
                           <<"Step 1/4: Checking reference image quality...">>,
                       !.error = None, !.resultImage = None,
                       !.resultText = None, !.qualityCheck = None,
                       !.showRejectionForm = FALSE,
                       !.rejectionFeedback = <<>>, !.logs = <<>>,
                       !.showImageWarning = FALSE,
                       !.imageWarning = JString(<<>>)]
             a == analyzeReferenceImagesStart(st.productImages, key)
         IN IF a.status = "thrown"
            THEN [app |-> [st1 EXCEPT !.error = Some(a.message),
                                      !.isLoading = FALSE],
                  status |-> "thrown", parts |-> <<>>]
            ELSE [app |-> st1, status |-> "await", parts |-> a.parts]

\* variant: cancelling is reported as a failure
handleCancelFromWarning_AsFailure(st) ==
    [st EXCEPT !.showImageWarning = FALSE, !.imageWarning = JString(<<>>),
               !.error = Some(<<"Generation was cancelled.">>)]

\* variant: cancelling empties the log as well
handleCancelFromWarning_ClearingLog(st) ==
    [st EXCEPT !.showImageWarning = FALSE, !.imageWarning = JString(<<>>),
               !.logs = <<>>]

handleCancelFromWarning(st) ==
    [st EXCEPT !.showImageWarning = FALSE, !.imageWarning = JString(<<>>)]

\* variant: approving keeps the uploaded images for the next job
handleApprove_KeepingImages(st) ==
    [st EXCEPT !.resultImage = None, !.resultText = None,
               !.qualityCheck = None, !.showRejectionForm = FALSE,
               !.rejectionFeedback = <<>>, !.error = None, !.logs = <<>>,
               !.isLogPanelOpen = FALSE, !.showImageWarning = FALSE,
               !.imageWarning = JString(<<>>)]

handleApprove(st) ==
    [st EXCEPT !.resultImage = None, !.resultText = None,
               !.marketingImage = None, !.productImages = <<>>,
               !.qualityCheck = None, !.showRejectionForm = FALSE,
               !.rejectionFeedback = <<>>, !.error = None, !.logs = <<>>,
               !.isLogPanelOpen = FALSE, !.showImageWarning = FALSE,
               !.imageWarning = JString(<<>>)]


-----------------------------------------------------------------------------
(* The async invocations in flight, and the histories *)

Slots == 1..MaxTasks

\* a handler invocation suspended at a model call: the stage it awaits, the
\* handler that started it, the images of the render it closed over, the
\* locals of replaceProductInImage, and the index of its call in the history
Task(stage, handler, productImages, marketingImage, frame, call) ==
    [pc |-> "await", stage |-> stage, handler |-> handler,
     productImages |-> productImages, marketingImage |-> marketingImage,
     frame |-> frame, call |-> call]

IdleTask ==
    [pc |-> "idle", stage |-> "none", handler |-> "none",
     productImages |-> <<>>, marketingImage |-> None, frame |-> NoFrame,
     call |-> 0]

InFlight == {i \in Slots : tasks[i].pc = "await"}

FreeSlot(i) == tasks[i].pc = "idle" /\ \A j \in 1..(i - 1) : tasks[j].pc # "idle"

NoOutcome ==
    [kind |-> "none", message |-> <<>>, result |-> NoResult, feedback |-> None,
     handler |-> "none"]

Outcome(r, feedback, handler) ==
    [kind |-> r.status, message |-> r.message, result |-> r.result,
     feedback |-> feedback, handler |-> handler]

\* the history restarts with a run, unless a call is still in flight
RunCalls == IF InFlight = {} THEN <<>> ELSE calls

Answered(cs, k, resp) == [cs EXCEPT ![k].resp = resp]

\* the bookkeeping of one stretch r of replaceProductInImage run for slot i,
\* started by handler with the closure (pi, mi), on the call history cs
Advance(i, r, handler, pi, mi, feedback, cs, attempt) ==
    /\ tasks' = [tasks EXCEPT ![i] =
                    IF r.status = "await"
                    THEN Task(r.stage, handler, pi, mi, r.frame, Len(cs) + 1)
                    ELSE IdleTask]
    /\ calls' = IF r.status = "await"
                THEN Append(cs, Call(r.stage, r.model, r.parts, handler,
                                     attempt))
                ELSE cs
    /\ lastOutcome' = IF r.status \in {"thrown", "returned"}
                      THEN Outcome(r, feedback, handler)
                      ELSE IF r.status = "await" THEN NoOutcome
                      ELSE lastOutcome
    /\ notified' = IF r.status = "skipped" THEN notified
                   ELSE LET before == IF attempt = attempts THEN notified
                                      ELSE <<>>
                        IN IF r.status = "await" /\ Len(r.progress) > 0
                           THEN Append(before, r.progress)
                           ELSE before

\* the two callers that invoke replaceProductInImage concurrently
Callers == {1, 2}

\* a caller: the arguments it passes, the messages its progress callback was
\* given, and how its invocation ended
NoCaller ==
    [invoked |-> FALSE, productImages |-> <<>>, marketingImage |-> <<>>,
     feedback |-> None, onProgress |-> FALSE, notified |-> <<>>,
     outcome |-> NoOutcome]

-----------------------------------------------------------------------------
(* Initial state *)

Init ==
    /\ app = AppInit
    /\ apiKey \in BOOLEAN
    /\ tasks = [i \in Slots |-> IdleTask]
    /\ calls = <<>>
    /\ lastOutcome = NoOutcome
    /\ gateDecision = "none"
    /\ attempts = 0
    /\ notified = <<>>
    /\ gateVerdict = NoVerdict
    /\ callers = [c \in Callers |-> NoCaller]

-----------------------------------------------------------------------------
(* User actions, each enabled when the rendered UI offers it *)

history ==
    <<calls, lastOutcome, gateDecision, attempts, notified, gateVerdict,
      callers>>

PickedFiles(S) == UNION {[1..n -> S] : n \in 1..MaxPick}

HandleProductFilesSelect ==
    /\ ~Covered(app)
    /\ ~ProductUploaderDisabled(app)
    /\ \E files \in PickedFiles(ProductFiles) :
          \E st \in {handleProductFilesSelect(app, files)} :
             /\ Len(st.productImages) <= MaxHeld
             /\ app' = st
    /\ UNCHANGED <<apiKey, tasks, history>>

HandleMarketingFileSelect ==
    /\ ~Covered(app)
    /\ MarketingUploaderShown(app)
    /\ \E file \in MarketingFiles :
          app' = handleMarketingFileSelect(app, <<file>>)
    /\ UNCHANGED <<apiKey, tasks, history>>

RemoveProductImage ==
    /\ ~Covered(app)
    /\ \E index \in 1..Len(app.productImages) :
          app' = removeProductImage(app, index)
    /\ UNCHANGED <<apiKey, tasks, history>>

RemoveMarketingImage ==
    /\ ~Covered(app)
    /\ ~IsNull(app.marketingImage)
    /\ app' = removeMarketingImage(app)
    /\ UNCHANGED <<apiKey, tasks, history>>

\* the Replace Product button
HandleGenerate ==
    /\ ~Covered(app)
    /\ ~isGenerateDisabled(app)
    /\ \E i \in Slots, h \in {handleGenerate(app, apiKey)} :
          /\ FreeSlot(i)
          /\ app' = h.app
          /\ tasks' = IF h.status = "await"
                      THEN [tasks EXCEPT ![i] =
                              Task("reference-quality", "handleGenerate",
                                   app.productImages, app.marketingImage,
                                   NoFrame, Len(RunCalls) + 1)]
                      ELSE tasks
          /\ calls' = IF h.status = "await"
                      THEN Append(RunCalls,
                                  Call("reference-quality", FlashModel,
                                       h.parts, "handleGenerate", 0))
                      ELSE RunCalls
          /\ gateDecision' = IF h.status = "await" THEN "pending"
                             ELSE "failed"
    /\ lastOutcome' = NoOutcome
    /\ attempts' = 0
    /\ notified' = <<>>
    /\ gateVerdict' = NoVerdict
    /\ UNCHANGED <<apiKey, callers>>

\* variant: Continue Anyway sends the reference images through the gate again
HandleContinueAnyway_Regating ==
    /\ ~Covered(app)
    /\ WarningShown(app)
    /\ \E i \in Slots, h \in {handleGenerate(app, apiKey)} :
          /\ FreeSlot(i)
          /\ app' = h.app
          /\ tasks' = IF h.status = "await"
                      THEN [tasks EXCEPT ![i] =
                              Task("reference-quality", "handleContinueAnyway",
                                   app.productImages, app.marketingImage,
                                   NoFrame, Len(calls) + 1)]
                      ELSE tasks
          /\ calls' = IF h.status = "await"
                      THEN Append(calls,
                                  Call("reference-quality", FlashModel,
                                       h.parts, "handleContinueAnyway", 0))
                      ELSE calls
    /\ gateDecision' = "pending"
    /\ UNCHANGED <<apiKey, callers, lastOutcome, attempts, notified,
                   gateVerdict>>

\* the Continue Anyway button of the warning
HandleContinueAnyway ==
    /\ ~Covered(app)
    /\ WarningShown(app)
    /\ \E i \in Slots,
          sg \in {startGenerationProcess(
                     [app EXCEPT !.showImageWarning = FALSE],
                     app.productImages, app.marketingImage, None, apiKey)} :
          /\ FreeSlot(i)
          /\ app' = sg.app
          /\ attempts' = IF sg.r.status = "skipped" THEN attempts
                         ELSE attempts + 1
          /\ Advance(i, sg.r, "handleContinueAnyway", app.productImages,
                     app.marketingImage, None, calls, attempts + 1)
    /\ gateDecision' = "continued"
    /\ UNCHANGED <<apiKey, callers, gateVerdict>>

\* the Cancel button of the warning
HandleCancelFromWarning ==
    /\ ~Covered(app)
    /\ WarningShown(app)
    /\ app' = handleCancelFromWarning(app)
    /\ gateDecision' = "cancelled"
    /\ UNCHANGED <<apiKey, callers, tasks, calls, lastOutcome, attempts,
                   notified, gateVerdict>>

HandleApprove ==
    /\ ~Covered(app)
    /\ ResultShown(app)
    /\ ~app.showRejectionForm
    /\ app' = handleApprove(app)
    /\ calls' = RunCalls
    /\ lastOutcome' = NoOutcome
    /\ gateDecision' = "none"
    /\ attempts' = 0
    /\ notified' = <<>>
    /\ gateVerdict' = NoVerdict
    /\ UNCHANGED <<apiKey, callers, tasks>>

\* the Reject button, and the Cancel button of the rejection form
SetShowRejectionForm ==
    /\ ~Covered(app)
    /\ ResultShown(app)
    /\ app' = [app EXCEPT !.showRejectionForm = ~app.showRejectionForm]
    /\ UNCHANGED <<apiKey, tasks, history>>

FeedbackInputs == {<<" ">>, <<" ", "too small">>}

\* typing in the feedback textarea
SetRejectionFeedback ==
    /\ ~Covered(app)
    /\ ResultShown(app)
    /\ app.showRejectionForm
    /\ \E text \in FeedbackInputs : app' = [app EXCEPT !.rejectionFeedback = text]
    /\ UNCHANGED <<apiKey, tasks, history>>

\* variant: the feedback is tested as typed, if (rejectionFeedback), untrimmed
HandleRetryWithFeedback_Untrimmed ==
    /\ ~Covered(app)
    /\ ResultShown(app)
    /\ app.showRejectionForm
    /\ Len(app.logs) < MaxLog
    /\ IF Len(app.rejectionFeedback) > 0
       THEN \E i \in Slots,
               sg \in {startGenerationProcess(
                          [app EXCEPT !.resultImage = None,
                                      !.resultText = None,
                                      !.qualityCheck = None,
                                      !.showRejectionForm = FALSE],
                          app.productImages, app.marketingImage,
                          Some(app.rejectionFeedback), apiKey)} :
               /\ FreeSlot(i)
               /\ app' = [sg.app EXCEPT !.rejectionFeedback = <<>>]
               /\ attempts' = IF sg.r.status = "skipped" THEN attempts
                              ELSE attempts + 1
               /\ Advance(i, sg.r, "handleRetryWithFeedback",
                          app.productImages, app.marketingImage,
                          Some(app.rejectionFeedback), calls, attempts + 1)
       ELSE UNCHANGED <<app, tasks, calls, lastOutcome, attempts, notified>>
    /\ UNCHANGED <<apiKey, callers, gateDecision, gateVerdict>>

\* variant: the retry clears the image and the critique and keeps the text
HandleRetryWithFeedback_KeepingText ==
    /\ ~Covered(app)
    /\ ResultShown(app)
    /\ app.showRejectionForm
    /\ Len(app.logs) < MaxLog
    /\ IF Len(Trim(app.rejectionFeedback)) > 0
       THEN \E i \in Slots,
               sg \in {startGenerationProcess(
                          [app EXCEPT !.resultImage = None,
                                      !.qualityCheck = None,
                                      !.showRejectionForm = FALSE],
                          app.productImages, app.marketingImage,
                          Some(app.rejectionFeedback), apiKey)} :
               /\ FreeSlot(i)
               /\ app' = [sg.app EXCEPT !.rejectionFeedback = <<>>]
               /\ attempts' = IF sg.r.status = "skipped" THEN attempts
                              ELSE attempts + 1
               /\ Advance(i, sg.r, "handleRetryWithFeedback",
                          app.productImages, app.marketingImage,
                          Some(app.rejectionFeedback), calls, attempts + 1)
       ELSE UNCHANGED <<app, tasks, calls, lastOutcome, attempts, notified>>
    /\ UNCHANGED <<apiKey, callers, gateDecision, gateVerdict>>

\* the Retry with Feedback button of the rejection form
HandleRetryWithFeedback ==
    /\ ~Covered(app)
    /\ ResultShown(app)
    /\ app.showRejectionForm
    /\ Len(app.logs) < MaxLog
    /\ IF Len(Trim(app.rejectionFeedback)) > 0
       THEN \E i \in Slots,
               sg \in {startGenerationProcess(
                          [app EXCEPT !.resultImage = None,
                                      !.resultText = None,
                                      !.qualityCheck = None,
                                      !.showRejectionForm = FALSE],
                          app.productImages, app.marketingImage,
                          Some(app.rejectionFeedback), apiKey)} :
               /\ FreeSlot(i)
               /\ app' = [sg.app EXCEPT !.rejectionFeedback = <<>>]
               /\ attempts' = IF sg.r.status = "skipped" THEN attempts
                              ELSE attempts + 1
               /\ Advance(i, sg.r, "handleRetryWithFeedback",
                          app.productImages, app.marketingImage,
                          Some(app.rejectionFeedback), calls, attempts + 1)
       ELSE UNCHANGED <<app, tasks, calls, lastOutcome, attempts, notified>>
    /\ UNCHANGED <<apiKey, callers, gateDecision, gateVerdict>>

\* the log button of the result panel, and the close button of the panel
SetIsLogPanelOpen ==
    /\ \/ ResultShown(app) /\ ~app.showRejectionForm /\ Len(app.logs) > 0
          /\ ~app.isLogPanelOpen
       \/ app.isLogPanelOpen
    /\ app' = [app EXCEPT !.isLogPanelOpen = ~app.isLogPanelOpen]
    /\ UNCHANGED <<apiKey, tasks, history>>

-----------------------------------------------------------------------------
(* The model service answers a pending call, and the handler resumes *)

GateReturn ==
    \E i \in InFlight, resp \in GateResponses :
       /\ tasks[i].stage = "reference-quality"
       /\ \E a \in {analyzeReferenceImagesResume(tasks[i].productImages, resp)},
             cs \in {Answered(calls, tasks[i].call, resp)} :
             IF a.status = "thrown"
             THEN /\ app' = [app EXCEPT !.error = Some(a.message),
                                        !.isLoading = FALSE]
                  /\ tasks' = [tasks EXCEPT ![i] = IdleTask]
                  /\ calls' = cs
                  /\ gateDecision' = "failed"
                  /\ gateVerdict' = NoVerdict
                  /\ UNCHANGED <<lastOutcome, attempts, notified>>
             ELSE IF Truthy(a.verdict.areImagesSuitable)
             THEN \E sg \in {startGenerationProcess(
                                [app EXCEPT !.logs = <<a.verdict.log>>],
                                tasks[i].productImages,
                                tasks[i].marketingImage, None, apiKey)} :
                     /\ app' = sg.app
                     /\ attempts' = IF sg.r.status = "skipped"
                                    THEN attempts ELSE attempts + 1
                     /\ Advance(i, sg.r, tasks[i].handler,
                                tasks[i].productImages,
                                tasks[i].marketingImage, None, cs,
                                attempts + 1)
                     /\ gateDecision' = "accepted"
                     /\ gateVerdict' = a.verdict
             ELSE /\ app' = [app EXCEPT
                               !.logs = <<a.verdict.log>>,
                               !.imageWarning = a.verdict.reasoning,
                               !.showImageWarning = TRUE,
                               !.isLoading = FALSE]
                  /\ tasks' = [tasks EXCEPT ![i] = IdleTask]
                  /\ calls' = cs
                  /\ gateDecision' = "blocked"
                  /\ gateVerdict' = a.verdict
                  /\ UNCHANGED <<lastOutcome, attempts, notified>>
       /\ UNCHANGED <<apiKey, callers>>

\* the code of replaceProductInImage that follows the answer to stage s
Resume(f, s, resp) ==
    CASE s \in {"consistency-analysis", "feedback-analysis"} ->
            replaceProductInImageAfterAnalysis(f, resp)
      [] s = "generation" -> replaceProductInImageAfterGeneration(f, resp)
      [] s = "quality-critique" -> replaceProductInImageAfterCritique(f, resp)

StageReturn(stages, responses) ==
    \E i \in InFlight, resp \in responses :
       /\ tasks[i].stage \in stages
       /\ \E r \in {Resume(tasks[i].frame, tasks[i].stage, resp)} :
             /\ app' = Settle(app, r)
             /\ Advance(i, r, tasks[i].handler, tasks[i].productImages,
                        tasks[i].marketingImage, tasks[i].frame.feedback,
                        Answered(calls, tasks[i].call, resp), attempts)
       /\ UNCHANGED <<apiKey, callers, gateDecision, attempts, gateVerdict>>

AnalysisReturn ==
    StageReturn({"consistency-analysis", "feedback-analysis"}, TextResponses)

GenerationReturn == StageReturn({"generation"}, GenerationResponses)

CritiqueReturn == StageReturn({"quality-critique"}, CritiqueResponses)

Next ==
    \/ HandleProductFilesSelect
    \/ HandleMarketingFileSelect
    \/ RemoveProductImage
    \/ RemoveMarketingImage
    \/ HandleGenerate
    \/ HandleContinueAnyway
    \/ HandleCancelFromWarning
    \/ HandleApprove
    \/ SetShowRejectionForm
    \/ SetRejectionFeedback
    \/ HandleRetryWithFeedback
    \/ SetIsLogPanelOpen
    \/ GateReturn
    \/ AnalysisReturn
    \/ GenerationReturn
    \/ CritiqueReturn

Spec == Init /\ [][Next]_vars

\* the model service answers every call it was sent, with a response or an
\* error: a handler suspended at an await is eventually resumed
FairSpec ==
    /\ Spec
    /\ WF_vars(GateReturn)
    /\ WF_vars(AnalysisReturn)
    /\ WF_vars(GenerationReturn)
    /\ WF_vars(CritiqueReturn)


-----------------------------------------------------------------------------
(* The two service operations on their own: a caller that holds a list of   *)
(* reference images and a target image invokes analyzeReferenceImages or    *)
(* replaceProductInImage with them, one invocation at a time                *)

\* reference images a caller of the service passes
MaxSvcImages == 2

SvcProductLists ==
    UNION {[1..n -> {ImgA, ImgB, ImgBad}] : n \in 0..MaxSvcImages}
SvcTargets == {ImgB, ImgBad}
\* no feedback, the empty string, a feedback text
SvcFeedbacks == {None, Some(<<>>), Some(<<"too small">>)}

\* the answers of the generation call, with two text and two image parts too
SvcGenerationResponses ==
    GenerationResponses
      \cup {PartsResp(<<<<TextPart(GenText), ImagePart(GenImage),
                          TextPart(GenRefusal), ImagePart(GenImage2)>>>>)}

\* nothing is in flight and nothing was invoked on the images held
SvcFresh == InFlight = {} /\ calls = <<>> /\ lastOutcome.kind = "none"

\* the caller takes the images it will pass
SvcChoose ==
    /\ InFlight = {}
    /\ \E pi \in SvcProductLists, mi \in SvcTargets :
          app' = [AppInit EXCEPT !.productImages = pi,
                                 !.marketingImage = Some(mi)]
    /\ calls' = <<>>
    /\ lastOutcome' = NoOutcome
    /\ attempts' = 0
    /\ notified' = <<>>
    /\ gateVerdict' = NoVerdict
    /\ UNCHANGED <<apiKey, callers, tasks, gateDecision>>

\* analyzeReferenceImages(productImages)
SvcAnalyze ==
    /\ SvcFresh
    /\ \E i \in Slots,
          a \in {analyzeReferenceImagesStart(app.productImages, apiKey)} :
          /\ FreeSlot(i)
          /\ IF a.status = "await"
             THEN /\ tasks' = [tasks EXCEPT ![i] =
                                 Task("reference-quality",
                                      "analyzeReferenceImages",
                                      app.productImages, app.marketingImage,
                                      NoFrame, 1)]
                  /\ calls' = <<Call("reference-quality", FlashModel, a.parts,
                                     "analyzeReferenceImages", 0)>>
                  /\ UNCHANGED lastOutcome
             ELSE /\ lastOutcome' =
                        [NoOutcome EXCEPT !.kind = "thrown",
                                          !.message = a.message,
                                          !.handler = "analyzeReferenceImages"]
                  /\ UNCHANGED <<tasks, calls>>
    /\ UNCHANGED <<app, apiKey, callers, gateDecision, attempts, notified,
                   gateVerdict>>

\* replaceProductInImage(productImages, marketingImage, feedback, onProgress)
SvcReplace ==
    /\ SvcFresh
    /\ ~IsNull(app.marketingImage)
    /\ \E i \in Slots, feedback \in SvcFeedbacks :
          \E r \in {replaceProductInImageStart(app.productImages,
                                               Val(app.marketingImage),
                                               feedback, TRUE, apiKey)} :
             /\ FreeSlot(i)
             /\ Advance(i, r, "replaceProductInImage", app.productImages,
                        app.marketingImage, feedback, <<>>, 1)
    /\ attempts' = 1
    /\ UNCHANGED <<app, apiKey, callers, gateDecision, gateVerdict>>

\* the gate call is answered: analyzeReferenceImages returns or throws
SvcGateReturn ==
    /\ \E i \in InFlight, resp \in GateResponses :
          /\ tasks[i].stage = "reference-quality"
          /\ \E a \in {analyzeReferenceImagesResume(tasks[i].productImages,
                                                    resp)} :
                /\ lastOutcome' =
                      [NoOutcome EXCEPT !.kind = a.status,
                                        !.message = a.message,
                                        !.handler = "analyzeReferenceImages"]
                /\ gateVerdict' = a.verdict
          /\ tasks' = [tasks EXCEPT ![i] = IdleTask]
          /\ calls' = Answered(calls, tasks[i].call, resp)
    /\ UNCHANGED <<app, apiKey, callers, gateDecision, attempts, notified>>

\* a call of replaceProductInImage is answered, and it resumes
SvcStageReturn ==
    /\ \E i \in InFlight :
          /\ tasks[i].stage # "reference-quality"
          /\ \E resp \in (CASE tasks[i].stage = "generation" ->
                                  SvcGenerationResponses
                            [] tasks[i].stage = "quality-critique" ->
                                  CritiqueResponses
                            [] OTHER -> TextResponses) :
                \E r \in {Resume(tasks[i].frame, tasks[i].stage, resp)} :
                   Advance(i, r, tasks[i].handler, tasks[i].productImages,
                           tasks[i].marketingImage, tasks[i].frame.feedback,
                           Answered(calls, tasks[i].call, resp), attempts)
    /\ UNCHANGED <<app, apiKey, callers, gateDecision, attempts, gateVerdict>>

SvcNext ==
    \/ SvcChoose
    \/ SvcAnalyze
    \/ SvcReplace
    \/ SvcGateReturn
    \/ SvcStageReturn

SvcSpec == Init /\ [][SvcNext]_vars

-----------------------------------------------------------------------------
(* Two callers invoke replaceProductInImage once each, concurrently: the    *)
(* model calls of the two invocations are answered in any order             *)

InstructionText2 == <<"Replace the bottle with the bottle.">>

\* what the call of a stage can be answered with
ConcResponses(stage) ==
    CASE stage = "generation" ->
            {ErrorResp(Upstream),
             PartsResp(<<  <<ImagePart(GenImage), TextPart(GenText)>>  >>),
             PartsResp(<<  <<ImagePart(GenImage2)>>  >>)}
      [] stage = "quality-critique" -> CritiqueResponses
      [] OTHER ->
            {ErrorResp(Upstream), TextResp(Some(InstructionText)),
             TextResp(Some(InstructionText2))}

\* the bookkeeping of one stretch r of the invocation of caller c: its task
\* sits in slot c, its calls carry c as their attempt
ConcAdvance(c, r, frame, cs) ==
    /\ tasks' = [tasks EXCEPT ![c] =
                    IF r.status = "await"
                    THEN Task(r.stage, "replaceProductInImage",
                              frame.productImages, Some(frame.marketingImage),
                              r.frame, Len(cs) + 1)
                    ELSE IdleTask]
    /\ calls' = IF r.status = "await"
                THEN Append(cs, Call(r.stage, r.model, r.parts,
                                     "replaceProductInImage", c))
                ELSE cs
    /\ callers' =
          [callers EXCEPT
             ![c] = [invoked |-> TRUE,
                     productImages |-> frame.productImages,
                     marketingImage |-> frame.marketingImage,
                     feedback |-> frame.feedback,
                     onProgress |-> frame.onProgress,
                     notified |-> IF r.status = "await" /\ Len(r.progress) > 0
                                  THEN Append(callers[c].notified, r.progress)
                                  ELSE callers[c].notified,
                     outcome |-> IF r.status = "await" THEN NoOutcome
                                 ELSE Outcome(r, frame.feedback,
                                              "replaceProductInImage")]]

\* replaceProductInImage(productImages, marketingImage, feedback, onProgress)
\* or, with onProgress FALSE, the call without the fourth argument
ConcInvoke ==
    /\ \E c \in Callers, pi \in {<<ImgA>>, <<ImgB>>},
          feedback \in {None, Some(<<"too small">>)}, onProgress \in BOOLEAN :
          /\ ~callers[c].invoked
          /\ ConcAdvance(c,
                         replaceProductInImageStart(pi, ImgB, feedback,
                                                    onProgress, apiKey),
                         Frame(pi, ImgB, feedback, onProgress), calls)
    /\ UNCHANGED <<app, apiKey, lastOutcome, gateDecision, attempts, notified,
                   gateVerdict>>

\* a call of one of the two invocations is answered, and it resumes
ConcReturn ==
    /\ \E c \in Callers :
          /\ tasks[c].pc = "await"
          /\ \E resp \in ConcResponses(tasks[c].stage) :
                ConcAdvance(c, Resume(tasks[c].frame, tasks[c].stage, resp),
                            tasks[c].frame,
                            Answered(calls, tasks[c].call, resp))
    /\ UNCHANGED <<app, apiKey, lastOutcome, gateDecision, attempts, notified,
                   gateVerdict>>

ConcNext ==
    \/ ConcInvoke
    \/ ConcReturn

ConcSpec == Init /\ [][ConcNext]_vars

-----------------------------------------------------------------------------
(* Vocabulary of the properties *)

AnalysisStages == {"consistency-analysis", "feedback-analysis"}

\* the calls of the k-th replaceProductInImage invocation of the run, in order
CallsOf(k) == SelectSeq(calls, LAMBDA c : c.attempt = k /\ c.stage # "reference-quality")

StagesOf(k) == [j \in 1..Len(CallsOf(k)) |-> CallsOf(k)[j].stage]

IsPrefix(s, t) == Len(s) <= Len(t) /\ s = SubSeq(t, 1, Len(s))

\* the call was answered, and the answer carried what the stage reads from it
Succeeded(c) ==
    /\ c.resp.kind = "ok"
    /\ c.stage = "generation" \/ ~IsNull(c.resp.text)

\* the reference images of a call: its parts before the target image and the
\* prompt (and, for the critique, the generated image)
RefCount(c) ==
    CASE c.stage = "reference-quality" -> Len(c.parts) - 1
      [] c.stage = "quality-critique"  -> Len(c.parts) - 3
      [] OTHER                         -> Len(c.parts) - 2

\* the answer of a generation call holds no inline image part
NoImagePart(resp) ==
    \/ resp.kind = "error"
    \/ Len(resp.candidates) = 0
    \/ \A j \in 1..Len(resp.candidates[1]) :
          resp.candidates[1][j].kind # "inlineData"

\* the non-empty texts of the text parts of the answer of a generation call
TextsOf(resp) ==
    IF resp.kind = "ok" /\ Len(resp.candidates) > 0
    THEN {resp.candidates[1][j].text :
            j \in {k \in 1..Len(resp.candidates[1]) :
                     /\ resp.candidates[1][k].kind = "text"
                     /\ Len(resp.candidates[1][k].text) > 0}}
    ELSE {}

\* the latest invocation is over and c is one of its calls
OfEndedInvocation(c) ==
    InFlight = {} /\ c.attempt = attempts /\ c.stage # "reference-quality"

StepsOf(log) == [j \in 1..Len(log) |-> log[j].step]

StrictlyIncreasing(s) == \A j \in 1..(Len(s) - 1) : s[j] < s[j + 1]

\* a step in which a handler issues a model call
NewCall(i) ==
    /\ tasks'[i].pc = "await"
    /\ tasks[i].pc = "idle" \/ tasks'[i].call # tasks[i].call

-----------------------------------------------------------------------------
(* C1 *)

\* C1 as stated: in every run let through by the gate (suitable, or Continue
\* at the warning) exactly one analysis call, then exactly one generation
\* call, then at most one critique call are issued.
C1_AsStated ==
    (gateDecision \in {"accepted", "continued"} /\ InFlight = {}) =>
        \E a \in AnalysisStages :
            StagesOf(1) \in {<<a, "generation">>,
                             <<a, "generation", "quality-critique">>}

\* C1 (amended): in every invocation of replaceProductInImage the model calls
\* issued are, in this order, at most one analysis call, at most one generation
\* call and at most one critique call, each issued only after the previous one
\* succeeded; an invocation that returns issued exactly one of each.
C1_CallOrder ==
    \A k \in 1..attempts :
        /\ \E a \in AnalysisStages :
              IsPrefix(StagesOf(k), <<a, "generation", "quality-critique">>)
        /\ \A j \in 2..Len(CallsOf(k)) : Succeeded(CallsOf(k)[j - 1])
        /\ (k = attempts /\ lastOutcome.kind = "returned") =>
              Len(CallsOf(k)) = 3

C1_Witness ==
    /\ gateDecision = "continued"
    /\ lastOutcome.kind = "returned"
    /\ StagesOf(1) = <<"consistency-analysis", "generation", "quality-critique">>

-----------------------------------------------------------------------------
(* C2 *)

\* C2: once the caller has cancelled at the warning, the run has issued no
\* analysis, generation or critique call, holds no error and has produced no
\* result image, result text or critique.
C2_CancelIsEmpty ==
    gateDecision = "cancelled" =>
        /\ \A k \in 1..Len(calls) : calls[k].stage = "reference-quality"
        /\ InFlight = {}
        /\ lastOutcome.kind = "none"
        /\ IsNull(app.error)
        /\ IsNull(app.resultImage)
        /\ IsNull(app.resultText)
        /\ IsNull(app.qualityCheck)

C2_Witness ==
    /\ gateDecision = "cancelled"
    /\ Len(calls) = 1
    /\ calls[1].resp.kind = "ok"
    /\ ~app.showImageWarning

-----------------------------------------------------------------------------
(* C3 *)

\* C3 as stated: while the warning is up, a model call is issued only by
\* Continue Anyway.
C3_AsStated ==
    [][\A i \in Slots :
          (app.showImageWarning /\ NewCall(i)) =>
              tasks'[i].handler = "handleContinueAnyway"]_vars

\* C3 (amended): while the warning is up no model call is in flight, and a
\* model call is issued only by Continue Anyway (the analysis call of the
\* blocked run) or by Replace Product (the gate call of a new run, which takes
\* the warning down).
C3_BlockedUntilUserActs ==
    /\ [](app.showImageWarning => InFlight = {})
    /\ [][\A i \in Slots :
             (app.showImageWarning /\ NewCall(i)) =>
                 \/ /\ tasks'[i].handler = "handleContinueAnyway"
                    /\ tasks'[i].stage = "consistency-analysis"
                 \/ /\ tasks'[i].handler = "handleGenerate"
                    /\ tasks'[i].stage = "reference-quality"
                    /\ ~app'.showImageWarning]_vars

C3_Witness ==
    /\ gateDecision = "continued"
    /\ Len(calls) = 2
    /\ calls[2].stage = "consistency-analysis"
    /\ calls[2].resp.kind = "pending"

-----------------------------------------------------------------------------
(* C4 *)

\* C4: every generation call is issued with between 1 and 5 reference images.
C4_GenerationRefCount ==
    \A k \in 1..Len(calls) :
        calls[k].stage = "generation" =>
            (1 <= RefCount(calls[k]) /\ RefCount(calls[k]) <= MaxProductImages)

-----------------------------------------------------------------------------
(* C5 *)

\* C5: a generation call answered without an image part makes
\* replaceProductInImage throw, with no critique call in that invocation; every
\* outcome it returns carries an image.
C5_ImageMandatory ==
    /\ lastOutcome.kind = "returned" => TruthyStr(lastOutcome.result.image)
    /\ \A k \in 1..Len(calls) :
          (/\ calls[k].stage = "generation"
           /\ calls[k].resp.kind # "pending"
           /\ NoImagePart(calls[k].resp)) =>
              /\ \A j \in 1..Len(calls) :
                    ~(calls[j].stage = "quality-critique"
                      /\ calls[j].attempt = calls[k].attempt)
              /\ OfEndedInvocation(calls[k]) => lastOutcome.kind = "thrown"

C5_Witness ==
    /\ lastOutcome.kind = "thrown"
    /\ \E k \in 1..Len(calls) :
          /\ calls[k].stage = "generation"
          /\ calls[k].resp.kind = "ok"
          /\ NoImagePart(calls[k].resp)
          /\ OfEndedInvocation(calls[k])

-----------------------------------------------------------------------------
(* C6 *)

-----------------------------------------------------------------------------
(* C7 *)

\* C7: when the critique call fails, replaceProductInImage still returns, with
\* the image and text of the generation answer and the placeholder as the
\* critique, and the App holds no error.
C7_CritiqueFailureIsSoft ==
    \A k \in 1..Len(calls) :
        (/\ calls[k].stage = "quality-critique"
         /\ calls[k].resp.kind = "error"
         /\ OfEndedInvocation(calls[k])) =>
            /\ lastOutcome.kind = "returned"
            /\ lastOutcome.result.qualityCheck = Some(QualityCheckPlaceholder)
            /\ \E g \in 1..Len(calls) :
                  /\ calls[g].stage = "generation"
                  /\ calls[g].attempt = calls[k].attempt
                  /\ lastOutcome.result.image = ScanResponse(calls[g].resp).image
                  /\ lastOutcome.result.text = ScanResponse(calls[g].resp).text
            /\ IsNull(app.error)

C7_Witness ==
    /\ lastOutcome.kind = "returned"
    /\ lastOutcome.result.qualityCheck = Some(QualityCheckPlaceholder)
    /\ app.qualityCheck = Some(QualityCheckPlaceholder)
    /\ \E k \in 1..Len(calls) :
          calls[k].stage = "quality-critique" /\ calls[k].resp.kind = "error"

-----------------------------------------------------------------------------
(* C8 *)

\* C8: at most one model call is in flight at any moment, and only while the
\* App is loading.
C8_OneCallInFlight ==
    /\ Cardinality(InFlight) <= 1
    /\ Cardinality({k \in 1..Len(calls) : calls[k].resp.kind = "pending"}) <= 1
    /\ InFlight # {} => app.isLoading

C8_Witness ==
    /\ InFlight # {}
    /\ \E k \in 1..Len(calls) :
          calls[k].stage = "quality-critique" /\ calls[k].resp.kind = "pending"

-----------------------------------------------------------------------------
(* C9 *)

\* C9 as stated: the log replaceProductInImage returns has strictly increasing
\* step numbers that start at 1.
C9_AsStated ==
    lastOutcome.kind = "returned" =>
        /\ StrictlyIncreasing(StepsOf(lastOutcome.result.logs))
        /\ Len(lastOutcome.result.logs) > 0
        /\ lastOutcome.result.logs[1].step = 1

\* C9 (amended): the log replaceProductInImage returns has strictly increasing
\* step numbers; its first entry is step 1 on a feedback retry and step 2 on a
\* fresh invocation, whose step 1 is the gate entry the App logs itself.
C9_ReturnedSteps ==
    lastOutcome.kind = "returned" =>
        /\ StrictlyIncreasing(StepsOf(lastOutcome.result.logs))
        /\ Len(lastOutcome.result.logs) > 0
        /\ lastOutcome.result.logs[1].step =
              (IF TruthyStr(lastOutcome.feedback) THEN 1 ELSE 2)

C9_Witness ==
    /\ lastOutcome.kind = "returned"
    /\ TruthyStr(lastOutcome.feedback)
    /\ StepsOf(lastOutcome.result.logs) = <<1, 2, 3>>

-----------------------------------------------------------------------------
(* C10 *)

\* C10 as stated: every model call issued by a successful invocation produced
\* one entry of the log it returns.
C10_AsStated ==
    lastOutcome.kind = "returned" =>
        Len(lastOutcome.result.logs) = Len(CallsOf(attempts))

\* C10 (amended): every model call that succeeds produces exactly one entry:
\* the log a successful invocation returns holds 3 entries when its critique
\* call succeeded and 2 when it failed, and the App's log holds one entry per
\* succeeded call of the run, the gate call included.
C10_LogPerSucceededCall ==
    lastOutcome.kind = "returned" =>
        /\ Len(lastOutcome.result.logs) =
              Len(SelectSeq(CallsOf(attempts), Succeeded))
        /\ Len(lastOutcome.result.logs) =
              (IF Succeeded(CallsOf(attempts)[3]) THEN 3 ELSE 2)
        /\ Len(app.logs) = Len(SelectSeq(calls, Succeeded))

C10_Witness ==
    /\ lastOutcome.kind = "returned"
    /\ Len(lastOutcome.result.logs) = 2
    /\ Len(CallsOf(attempts)) = 3
    /\ Len(app.logs) = 3


-----------------------------------------------------------------------------
(* C11 *)

-----------------------------------------------------------------------------
(* C12 *)

TitlesOf(log) == [j \in 1..Len(log) |-> log[j].title]

\* a fresh invocation has returned and its three calls all succeeded
FreshAllSucceeded ==
    /\ lastOutcome.kind = "returned"
    /\ ~TruthyStr(lastOutcome.feedback)
    /\ Len(CallsOf(attempts)) = 3
    /\ \A j \in 1..3 : Succeeded(CallsOf(attempts)[j])

FreshTitles ==
    <<"Pre-analysis for Logical Consistency",
      "Product Replacement Image Generation", "AI Quality Check">>

\* C12 as stated: a fresh invocation whose three calls succeed returns an
\* image, a critique and a log of 3 entries with steps 1, 2, 3 and the titles
\* of the three stages.
C12_AsStated ==
    FreshAllSucceeded =>
        /\ ~IsNull(lastOutcome.result.image)
        /\ ~IsNull(lastOutcome.result.qualityCheck)
        /\ StepsOf(lastOutcome.result.logs) = <<1, 2, 3>>
        /\ TitlesOf(lastOutcome.result.logs) = FreshTitles

\* C12 (amended): a fresh invocation whose three calls succeed returns an
\* image, a critique and a log of 3 entries with steps 2, 3, 4 and the titles
\* of the three stages.
C12_FreshScenario ==
    FreshAllSucceeded =>
        /\ ~IsNull(lastOutcome.result.image)
        /\ ~IsNull(lastOutcome.result.qualityCheck)
        /\ StepsOf(lastOutcome.result.logs) = <<2, 3, 4>>
        /\ TitlesOf(lastOutcome.result.logs) = FreshTitles

C12_Witness ==
    /\ FreshAllSucceeded
    /\ gateDecision = "accepted"
    /\ Len(lastOutcome.result.logs) = 3
    /\ app.resultImage = Some(PngDataUrl(Val(lastOutcome.result.image)))


-----------------------------------------------------------------------------
(* C13 *)

GateCalls == {k \in 1..Len(calls) : calls[k].stage = "reference-quality"}

-----------------------------------------------------------------------------
(* C14 *)

\* the feedback argument of the latest replaceProductInImage invocation
CurrentFeedbacks ==
    {tasks[i].frame.feedback :
        i \in {j \in InFlight : tasks[j].stage # "reference-quality"}}
      \cup (IF lastOutcome.kind \in {"thrown", "returned"}
            THEN {lastOutcome.feedback} ELSE {})

\* the prompt of a call: the text of its last part
PromptOf(c) == c.parts[Len(c.parts)].text

StageFor(feedback) ==
    IF TruthyStr(feedback) THEN "feedback-analysis" ELSE "consistency-analysis"

\* C14 as stated: every invocation of replaceProductInImage runs exactly one
\* analysis stage, the one its feedback argument selects.
C14_AsStated ==
    lastOutcome.kind \in {"thrown", "returned"} =>
        /\ Len(CallsOf(attempts)) > 0
        /\ CallsOf(attempts)[1].stage = StageFor(lastOutcome.feedback)

\* C14 (amended): an invocation of replaceProductInImage that passes the
\* credential and image-format checks runs exactly one analysis stage, as its
\* first call: feedback-analysis if the feedback argument is a non-empty
\* string, consistency-analysis otherwise; the trimmed output of that stage
\* is in the prompts of the generation and critique calls of the invocation.
C14_AnalysisByFeedback ==
    /\ \A fb \in CurrentFeedbacks :
          LET cs == CallsOf(attempts)
          IN Len(cs) > 0 =>
                /\ cs[1].stage = StageFor(fb)
                /\ \A j \in 2..Len(cs) :
                      /\ cs[j].stage \notin AnalysisStages
                      /\ Contains(PromptOf(cs[j]), Trim(Val(cs[1].resp.text)))
    /\ lastOutcome.kind = "returned" => Len(CallsOf(attempts)) > 0
    /\ (lastOutcome.kind = "thrown" /\ Len(CallsOf(attempts)) = 0) =>
          lastOutcome.message \in {ReplaceKeyMsg, InvalidFormatMsg}

C14_Witness ==
    /\ attempts = 2
    /\ lastOutcome.kind = "returned"
    /\ TruthyStr(lastOutcome.feedback)
    /\ StagesOf(2) = <<"feedback-analysis", "generation", "quality-critique">>
    /\ StagesOf(1) = <<"consistency-analysis", "generation", "quality-critique">>


-----------------------------------------------------------------------------
(* C15 *)

\* C15: without the API credential analyzeReferenceImages and
\* replaceProductInImage throw their credential error, and no model call, log
\* entry or progress notification has been produced.
C15_NoKeyNoCall ==
    ~apiKey =>
        /\ calls = <<>>
        /\ InFlight = {}
        /\ notified = <<>>
        /\ gateVerdict = NoVerdict
        /\ lastOutcome.kind \in {"none", "thrown"}
        /\ lastOutcome.result.logs = <<>>
        /\ lastOutcome.kind = "thrown" =>
              lastOutcome.message =
                 (IF lastOutcome.handler = "analyzeReferenceImages"
                  THEN GateKeyMsg ELSE ReplaceKeyMsg)

C15_Witness ==
    /\ ~apiKey
    /\ lastOutcome.kind = "thrown"
    /\ lastOutcome.handler = "replaceProductInImage"
    /\ lastOutcome.message = ReplaceKeyMsg
    /\ AllWellFormed(app.productImages)
    /\ Len(app.productImages) > 0


-----------------------------------------------------------------------------
(* C16 *)

\* the operation was invoked on the images the caller holds
Invoked(op) ==
    \/ lastOutcome.handler = op
    \/ \E i \in InFlight : tasks[i].handler = op

\* the encoded form reads data:<mime>;base64,<payload>, with a mime type and
\* a payload of at least one chunk each
MatchesDataUrl(s) ==
    /\ Len(s) >= 4
    /\ s[1] = "data:"
    /\ \E k \in 3..(Len(s) - 1) : s[k] = ";base64,"

\* one of the images the operation converts is malformed
MalformedFor(op) ==
    \/ \E j \in 1..Len(app.productImages) : ~MatchesDataUrl(app.productImages[j])
    \/ /\ op = "replaceProductInImage"
       /\ ~MatchesDataUrl(Val(app.marketingImage))

ServiceOperations == {"analyzeReferenceImages", "replaceProductInImage"}

\* C16 as stated: an operation invoked with a malformed image fails with the
\* format error, with no model call and no log entry.
C16_AsStated ==
    \A op \in ServiceOperations :
        (Invoked(op) /\ MalformedFor(op)) =>
            /\ lastOutcome.kind = "thrown"
            /\ lastOutcome.message = InvalidFormatMsg
            /\ calls = <<>>
            /\ lastOutcome.result.logs = <<>>
            /\ gateVerdict = NoVerdict

\* C16 (amended): an operation invoked with a malformed image fails with no
\* model call and no log entry: with the format error when the API credential
\* is present, with the credential error, which is checked first, when not.
C16_MalformedAborts ==
    \A op \in ServiceOperations :
        (Invoked(op) /\ MalformedFor(op)) =>
            /\ lastOutcome.kind = "thrown"
            /\ lastOutcome.message =
                  (IF apiKey THEN InvalidFormatMsg
                   ELSE IF op = "analyzeReferenceImages" THEN GateKeyMsg
                   ELSE ReplaceKeyMsg)
            /\ calls = <<>>
            /\ lastOutcome.result.logs = <<>>
            /\ gateVerdict = NoVerdict

C16_Witness ==
    /\ apiKey
    /\ Invoked("replaceProductInImage")
    /\ AllWellFormed(app.productImages)
    /\ MalformedFor("replaceProductInImage")
    /\ lastOutcome.message = InvalidFormatMsg


-----------------------------------------------------------------------------
(* C17 *)

\* the call was answered with a failure, or without the text its stage reads
Failed(c) == c.resp.kind # "pending" /\ ~Succeeded(c)

AbortingStages == {"reference-quality", "generation"} \cup AnalysisStages

\* C17: when the gate, analysis or generation call fails, no further model
\* call follows it, the App holds a non-empty error message and the loading
\* flag is cleared.
C17_FailureAborts ==
    \A k \in 1..Len(calls) :
        (Failed(calls[k]) /\ calls[k].stage \in AbortingStages) =>
            /\ k = Len(calls)
            /\ InFlight = {}
            /\ ~IsNull(app.error)
            /\ Len(Val(app.error)) > 0
            /\ ~app.isLoading
            /\ IsNull(app.resultImage)

C17_Witness ==
    /\ attempts = 2
    /\ Failed(calls[Len(calls)])
    /\ calls[Len(calls)].stage = "generation"
    /\ app.error = Some(Wrapped(Upstream))


-----------------------------------------------------------------------------
(* C18 *)

UserStarted == {"handleContinueAnyway", "handleRetryWithFeedback"}

\* C18: one invocation of analyzeReferenceImages issues at most one call, one
\* invocation of replaceProductInImage at most one call per stage, and a call
\* that failed is followed by no call of its own invocation: every later call
\* of the run belongs to an invocation that a user action started.
C18_NoAutomaticRetry ==
    /\ Cardinality(GateCalls) <= 1
    /\ \A k \in 1..attempts :
          /\ Len(CallsOf(k)) <= 3
          /\ \A i, j \in 1..Len(CallsOf(k)) :
                CallsOf(k)[i].stage = CallsOf(k)[j].stage => i = j
    /\ \A k \in 1..Len(calls) :
          Failed(calls[k]) =>
              \A j \in (k + 1)..Len(calls) :
                  /\ calls[j].attempt > calls[k].attempt
                  /\ calls[j].handler \in UserStarted

C18_Witness ==
    \E k \in 1..Len(calls) :
        /\ Failed(calls[k])
        /\ calls[k].stage = "quality-critique"
        /\ k < Len(calls)
        /\ calls[Len(calls)].stage = "quality-critique"
        /\ calls[Len(calls)].handler = "handleRetryWithFeedback"


-----------------------------------------------------------------------------
(* C19 *)

\* gate response bodies that are a JSON object with a boolean
\* areImagesSuitable and a string reasoning, with the values they carry
SchemaBodies ==
    {[body |-> GateSuitable, suitable |-> TRUE,
      reasoning |-> <<"clear and well lit">>],
     [body |-> GateUnsuitable, suitable |-> FALSE,
      reasoning |-> <<"busy background">>]}

\* C19: when the gate call is answered with such a body,
\* analyzeReferenceImages returns that boolean and that string.
C19_GateRoundTrip ==
    \A sb \in SchemaBodies :
        (/\ Len(calls) = 1
         /\ calls[1].stage = "reference-quality"
         /\ calls[1].resp = TextResp(Some(sb.body))) =>
            /\ lastOutcome.kind = "returned"
            /\ gateVerdict.areImagesSuitable = JBool(sb.suitable)
            /\ gateVerdict.reasoning = JString(sb.reasoning)

C19_Witness ==
    /\ Len(calls) = 1
    /\ calls[1].resp = TextResp(Some(GateSuitable))
    /\ lastOutcome.handler = "analyzeReferenceImages"
    /\ gateVerdict.areImagesSuitable = JBool(TRUE)
    /\ gateVerdict.reasoning = JString(<<"clear and well lit">>)


-----------------------------------------------------------------------------
(* C20 *)

Min(S) == CHOOSE x \in S : \A y \in S : x <= y

ImageIdx(parts) == {j \in 1..Len(parts) : parts[j].kind = "inlineData"}

\* the parts that are not images and carry a non-empty text
TextIdx(parts) ==
    {j \in 1..Len(parts) : parts[j].kind = "text" /\ Len(parts[j].text) > 0}

\* the parts the generation call of a returned invocation was answered with
ReturnedFrom(parts) ==
    /\ lastOutcome.kind = "returned"
    /\ Len(CallsOf(attempts)) >= 2
    /\ CallsOf(attempts)[2].stage = "generation"
    /\ CallsOf(attempts)[2].resp.kind = "ok"
    /\ Len(CallsOf(attempts)[2].resp.candidates) > 0
    /\ parts = CallsOf(attempts)[2].resp.candidates[1]

AnsweredParts ==
    {resp.candidates[1] :
        resp \in {r \in SvcGenerationResponses :
                     r.kind = "ok" /\ Len(r.candidates) > 0}}

\* C20 as stated: the image and the text of the result are the first image
\* part and the first text part of the answer.
C20_AsStated ==
    \A parts \in AnsweredParts :
        ReturnedFrom(parts) =>
            /\ lastOutcome.result.image = Some(parts[Min(ImageIdx(parts))].data)
            /\ TextIdx(parts) # {} =>
                  lastOutcome.result.text = Some(parts[Min(TextIdx(parts))].text)

\* C20 (amended): the image and the text of the result are the last image
\* part and the last part with a non-empty text of the answer; without such
\* a text part the text is null.
C20_LastPartsWin ==
    \A parts \in AnsweredParts :
        ReturnedFrom(parts) =>
            /\ lastOutcome.result.image = Some(parts[Max(ImageIdx(parts))].data)
            /\ lastOutcome.result.text =
                  (IF TextIdx(parts) # {}
                   THEN Some(parts[Max(TextIdx(parts))].text) ELSE None)

C20_Witness ==
    /\ lastOutcome.kind = "returned"
    /\ \E parts \in AnsweredParts :
          /\ ReturnedFrom(parts)
          /\ Cardinality(ImageIdx(parts)) = 2
          /\ Cardinality(TextIdx(parts)) = 2
    /\ lastOutcome.result.image = Some(GenImage2)
    /\ lastOutcome.result.text = Some(GenRefusal)

-----------------------------------------------------------------------------
(* C21 *)

\* the answer parses into {areImagesSuitable: boolean, reasoning: string}
ParsesIntoSchema(resp) ==
    /\ resp.kind = "ok"
    /\ ~IsNull(resp.text)
    /\ JSONParse(Val(resp.text)).ok
    /\ LET v == JSONParse(Val(resp.text)).value
       IN /\ v.t = "object"
          /\ GetProp(v, <<"areImagesSuitable">>).t = "boolean"
          /\ GetProp(v, <<"reasoning">>).t = "string"

\* the gate call of analyzeReferenceImages was answered
GateAnswered ==
    /\ Len(calls) = 1
    /\ calls[1].stage = "reference-quality"
    /\ calls[1].resp.kind # "pending"

\* C21: when the answer of the gate call does not parse into the schema (it
\* is not JSON, or a field is missing or of the wrong type),
\* analyzeReferenceImages throws and returns no verdict.
C21_SchemaOrError ==
    (GateAnswered /\ ~ParsesIntoSchema(calls[1].resp)) =>
        lastOutcome.kind = "thrown" /\ gateVerdict = NoVerdict

-----------------------------------------------------------------------------
(* C22 *)

\* the latest invocation of replaceProductInImage threw after its analysis
\* call, of the given stage, was answered with an upstream error
AnalysisCallFailed(stage) ==
    /\ lastOutcome.kind = "thrown"
    /\ Len(CallsOf(attempts)) = 1
    /\ CallsOf(attempts)[1].stage = stage
    /\ CallsOf(attempts)[1].resp.kind = "error"

\* C22 as stated: when the consistency-analysis or the feedback-analysis call
\* fails, the message of the error the caller gets carries the upstream
\* failure reason.
C22_AsStated ==
    \A stage \in AnalysisStages :
        AnalysisCallFailed(stage) =>
            Contains(lastOutcome.message, CallsOf(attempts)[1].resp.reason)

\* C22 (amended): a failed consistency-analysis call surfaces as the fixed
\* analysis error, which does not carry the upstream reason; a failed
\* feedback-analysis call surfaces as the upstream reason behind the prefix
\* of the outer catch.
C22_AnalysisErrors ==
    /\ AnalysisCallFailed("consistency-analysis") =>
          /\ lastOutcome.message =
                <<"Failed to generate image: ",
                  "The AI failed to analyze the images for logical consistency.">>
          /\ ~Contains(lastOutcome.message, CallsOf(attempts)[1].resp.reason)
    /\ AnalysisCallFailed("feedback-analysis") =>
          lastOutcome.message =
             <<"Failed to generate image: ">> \o CallsOf(attempts)[1].resp.reason

C22_Witness ==
    /\ AnalysisCallFailed("consistency-analysis")
    /\ CallsOf(attempts)[1].resp.reason = Upstream
    /\ lastOutcome.message =
          <<"Failed to generate image: ",
            "The AI failed to analyze the images for logical consistency.">>

-----------------------------------------------------------------------------
(* C23 *)

\* the stage a progress message announces
Announces(message) ==
    CASE message = <<"Step 1/3: Analyzing user feedback...">> ->
            "feedback-analysis"
      [] message = <<"Step 2/4: Analyzing for logical consistency...">> ->
            "consistency-analysis"
      [] message \in {<<"Step 2/3: Generating new image...">>,
                      <<"Step 3/4: Generating new image...">>} ->
            "generation"
      [] message \in {<<"Step 3/3: Performing quality check...">>,
                      <<"Step 4/4: Performing quality check...">>} ->
            "quality-critique"
      [] OTHER -> "none"

\* callers c and d passed the same images and feedback, c with a progress
\* callback and d without one
SameButCallback(c, d) ==
    /\ callers[c].invoked /\ callers[d].invoked
    /\ callers[c].productImages = callers[d].productImages
    /\ callers[c].marketingImage = callers[d].marketingImage
    /\ callers[c].feedback = callers[d].feedback
    /\ callers[c].onProgress /\ ~callers[d].onProgress

\* the first n calls of c and of d got the same answers
SameAnswers(c, d, n) ==
    \A i \in 1..n : CallsOf(c)[i].resp = CallsOf(d)[i].resp

Ended(c) == callers[c].outcome.kind \in {"thrown", "returned"}

\* C23: a caller that passed a callback has been notified exactly once for
\* each model call its invocation issued so far, in the order of the calls
\* and each message naming the stage of its call (so never later than the
\* call is issued); a caller that passed none is not notified; and two
\* invocations that differ only in the callback and get the same answers
\* issue the same calls and end the same way.
C23_ProgressOncePerCall ==
    /\ \A c \in Callers :
          IF callers[c].onProgress
          THEN /\ Len(callers[c].notified) = Len(CallsOf(c))
               /\ \A j \in 1..Len(CallsOf(c)) :
                     Announces(callers[c].notified[j]) = CallsOf(c)[j].stage
          ELSE callers[c].notified = <<>>
    /\ \A c, d \in Callers :
          SameButCallback(c, d) =>
             LET n == IF Len(CallsOf(c)) < Len(CallsOf(d))
                      THEN Len(CallsOf(c)) ELSE Len(CallsOf(d))
             IN /\ \A j \in 1..n :
                      SameAnswers(c, d, j - 1) =>
                         /\ CallsOf(c)[j].stage = CallsOf(d)[j].stage
                         /\ CallsOf(c)[j].model = CallsOf(d)[j].model
                         /\ CallsOf(c)[j].parts = CallsOf(d)[j].parts
                /\ (Ended(c) /\ Ended(d) /\ SameAnswers(c, d, n)) =>
                      /\ Len(CallsOf(c)) = Len(CallsOf(d))
                      /\ callers[c].outcome = callers[d].outcome

C23_Witness ==
    \E c, d \in Callers :
       /\ SameButCallback(c, d)
       /\ callers[c].outcome.kind = "returned"
       /\ callers[d].outcome = callers[c].outcome
       /\ callers[c].notified =
             <<  <<"Step 2/4: Analyzing for logical consistency...">>,
                 <<"Step 3/4: Generating new image...">>,
                 <<"Step 4/4: Performing quality check...">>  >>
       /\ callers[d].notified = <<>>
       /\ Len(CallsOf(d)) = 3

-----------------------------------------------------------------------------
(* C24 *)

\* the prompt of a call: the text of its last part
PromptTextOf(c) == c.parts[Len(c.parts)].text

\* the images of a log entry are the images caller c passed, in their order,
\* then its target image
OwnImages(c, entry) ==
    /\ Len(entry.input.images) > Len(callers[c].productImages)
    /\ \A k \in 1..Len(callers[c].productImages) :
          entry.input.images[k].base64 = callers[c].productImages[k]
    /\ entry.input.images[Len(callers[c].productImages) + 1].base64 =
          callers[c].marketingImage

\* C24: with the two invocations in flight together and their calls answered
\* in any order, what an invocation returns is made of its own arguments
\* and the answers to its own calls only: its log has one entry per call of
\* its own that succeeded, on its own images; the critical instruction in
\* its prompts and its log is the trimmed answer to its own analysis call;
\* its image and text are those of the answer to its own generation call;
\* its critique is the trimmed answer to its own critique call.
C24_NoSharedState ==
    \A c \in Callers :
       callers[c].outcome.kind = "returned" =>
          LET cs == CallsOf(c)
              res == callers[c].outcome.result
              instruction == Trim(Val(cs[1].resp.text))
              parts == cs[2].resp.candidates[1]
          IN /\ Len(cs) = 3
             /\ Len(res.logs) = IF Succeeded(cs[3]) THEN 3 ELSE 2
             /\ \A j \in 1..Len(res.logs) : OwnImages(c, res.logs[j])
             /\ res.logs[1].output.text = Some(instruction)
             /\ Contains(PromptTextOf(cs[2]), instruction)
             /\ Contains(PromptTextOf(cs[3]), instruction)
             /\ res.logs[2].input.prompt = PromptTextOf(cs[2])
             /\ res.image = Some(parts[Max(ImageIdx(parts))].data)
             /\ res.text = (IF TextIdx(parts) # {}
                            THEN Some(parts[Max(TextIdx(parts))].text)
                            ELSE None)
             /\ res.logs[2].output.image =
                   Some(<<"data:", "image/png", ";base64,">>
                           \o parts[Max(ImageIdx(parts))].data)
             /\ res.logs[2].output.text = res.text
             /\ Succeeded(cs[3]) =>
                   /\ res.logs[3].output.text =
                         Some(Trim(Val(cs[3].resp.text)))
                   /\ res.qualityCheck = res.logs[3].output.text
                   /\ res.logs[3].input.prompt = PromptTextOf(cs[3])

\* both invocations returned, their calls were issued alternately, and they
\* differ in the reference images, the instruction and the generated image
C24_Witness ==
    /\ \A c \in Callers : callers[c].outcome.kind = "returned"
    /\ Len(calls) = 6
    /\ \A j \in 1..6 : calls[j].attempt = (IF j % 2 = 1 THEN 1 ELSE 2)
    /\ callers[1].productImages # callers[2].productImages
    /\ CallsOf(1)[1].resp.text # CallsOf(2)[1].resp.text
    /\ callers[1].outcome.result.image = Some(GenImage)
    /\ callers[2].outcome.result.image = Some(GenImage2)
    /\ Len(callers[1].outcome.result.logs) = 3
    /\ Len(callers[2].outcome.result.logs) = 3

-----------------------------------------------------------------------------
(* C25 *)

\* the critique call of the latest invocation, which returned
ReturnedWithCritique(c) ==
    /\ lastOutcome.kind = "returned"
    /\ lastOutcome.handler = "replaceProductInImage"
    /\ Len(CallsOf(attempts)) = 3
    /\ c = CallsOf(attempts)[3]
    /\ c.stage = "quality-critique"

HasQualityCheckEntry(log) ==
    \E j \in 1..Len(log) : log[j].title = "AI Quality Check"

\* C25: the log a returned invocation hands back has an "AI Quality Check"
\* entry exactly when its critique call succeeded; when that call failed the
\* log holds the analysis entry and the generation entry only, and the
\* critique of the result is the placeholder.
C25_CritiqueEntryIffSucceeded ==
    \A c \in {calls[k] : k \in 1..Len(calls)} :
       ReturnedWithCritique(c) =>
          LET log == lastOutcome.result.logs
          IN /\ HasQualityCheckEntry(log) <=>
                   (c.resp.kind = "ok" /\ ~IsNull(c.resp.text))
             /\ (c.resp.kind = "error" \/ IsNull(c.resp.text)) =>
                   /\ \/ TitlesOf(log) =
                            <<"Pre-analysis for Logical Consistency",
                              "Product Replacement Image Generation">>
                      \/ TitlesOf(log) =
                            <<"Feedback Analysis",
                              "Product Replacement Image Generation">>
                   /\ lastOutcome.result.qualityCheck =
                         Some(<<"The AI quality check could not be completed due to an error.">>)

C25_Witness ==
    \E c \in {calls[k] : k \in 1..Len(calls)} :
       /\ ReturnedWithCritique(c)
       /\ c.resp.kind = "error"
       /\ Len(lastOutcome.result.logs) = 2
       /\ ~HasQualityCheckEntry(lastOutcome.result.logs)
       /\ lastOutcome.result.qualityCheck = Some(QualityCheckPlaceholder)

-----------------------------------------------------------------------------
(* C26 *)

\* invocation i is suspended at its generation call and was given feedback
RetryGenerating(i) ==
    /\ tasks[i].pc = "await"
    /\ tasks[i].stage = "generation"
    /\ TruthyStr(tasks[i].frame.feedback)

\* C26 as stated: on a feedback retry the feedback text is part of the
\* prompt of the generation call.
C26_AsStated ==
    \A i \in DOMAIN tasks :
       RetryGenerating(i) =>
          Contains(PromptTextOf(calls[tasks[i].call]),
                   Val(tasks[i].frame.feedback))

\* C26 (amended): on a feedback retry the feedback text is part of the
\* prompt of the feedback-analysis call; the prompt of the generation call
\* is the base prompt around the trimmed answer of that call, followed by
\* the fixed note of a revised attempt.
C26_FeedbackThroughAnalysis ==
    \A i \in DOMAIN tasks :
       RetryGenerating(i) =>
          LET analysis == calls[tasks[i].call - 1]
              n == Len(tasks[i].frame.productImages)
          IN /\ analysis.stage = "feedback-analysis"
             /\ Contains(PromptTextOf(analysis), Val(tasks[i].frame.feedback))
             /\ PromptTextOf(calls[tasks[i].call]) =
                   BaseTextPrompt(n, Trim(Val(analysis.resp.text)))
                     \o RevisedNote

C26_Witness ==
    \E i \in DOMAIN tasks :
       /\ RetryGenerating(i)
       /\ tasks[i].frame.feedback = Some(<<"too small">>)
       /\ Contains(PromptTextOf(calls[tasks[i].call]),
                   <<"Replace one shoe with one shoe.">>)
       /\ ~Contains(PromptTextOf(calls[tasks[i].call]), <<"too small">>)

-----------------------------------------------------------------------------
(* C27 *)

\* the reference image parts of a call, and its target image part
RefParts(c) == SubSeq(c.parts, 1, RefCount(c))

TargetPart(c) == c.parts[RefCount(c) + 1]

\* C27: all the model calls of one run, its feedback retries included, carry
\* the same reference images, and all but the gate call the same target
\* image.
C27_SameImagesThroughRun ==
    \A j, k \in 1..Len(calls) :
       /\ RefParts(calls[j]) = RefParts(calls[k])
       /\ (calls[j].stage # "reference-quality"
             /\ calls[k].stage # "reference-quality") =>
             TargetPart(calls[j]) = TargetPart(calls[k])

-----------------------------------------------------------------------------
(* C28 *)

\* the run is over and the App shows exactly one of the result image, an
\* error and the gate warning
RunSettled ==
    /\ ~app.isLoading
    /\ Cardinality({x \in {"result", "error", "warning"} :
                      \/ x = "result" /\ ResultShown(app)
                      \/ x = "error" /\ ErrorShown(app)
                      \/ x = "warning" /\ WarningShown(app)}) = 1

\* a step in which the answer to a model call is taken
CallAnswered ==
    \E i \in DOMAIN tasks :
       /\ tasks[i].pc = "await"
       /\ calls'[tasks[i].call].resp.kind # "pending"
       /\ calls[tasks[i].call].resp.kind = "pending"

\* C28: when every call issued is answered, a run that Generate, Continue
\* Anyway or Retry with Feedback has put in progress (the loading flag is
\* set) leads to a state with the flag cleared and exactly one of the result
\* image, an error and the gate warning shown; and the flag of a run in
\* progress is cleared only by a step that takes the answer to a call, so a
\* call that is never answered leaves it set forever.
C28_RunsSettle ==
    /\ app.isLoading ~> RunSettled
    /\ [][(app.isLoading /\ ~app'.isLoading) => CallAnswered]_vars

C28_Witness ==
    /\ RunSettled
    /\ ResultShown(app)
    /\ attempts = 2
    /\ lastOutcome.kind = "returned"
    /\ lastOutcome.handler = "handleRetryWithFeedback"

-----------------------------------------------------------------------------
(* C29 *)

\* the inline part of an image data:<mime>;base64,<payload> of four chunks
InlineOf(image) ==
    [kind |-> "inlineData", mimeType |-> <<image[2]>>, data |-> <<image[4]>>,
     text |-> <<>>]

\* the generated image handed back by the answer of a generation call
GeneratedBy(c) ==
    LET parts == c.resp.candidates[1]
    IN [kind |-> "inlineData", mimeType |-> <<"image/png">>,
        data |-> parts[Max(ImageIdx(parts))].data, text |-> <<>>]

\* C29: the parts of every model call are the reference images the caller
\* passed, in their order, then (but for the gate call) the target image,
\* then (for the critique call) the generated image, and last the one text
\* part, the prompt.
C29_PartsOrder ==
    \A k \in 1..Len(calls) :
       LET c == calls[k]
           refs == app.productImages
           n == Len(refs)
       IN /\ Len(c.parts) =
                (CASE c.stage = "reference-quality" -> n + 1
                   [] c.stage = "quality-critique"  -> n + 3
                   [] OTHER                         -> n + 2)
          /\ \A j \in 1..n : c.parts[j] = InlineOf(refs[j])
          /\ c.stage # "reference-quality" =>
                c.parts[n + 1] = InlineOf(Val(app.marketingImage))
          /\ c.stage = "quality-critique" =>
                c.parts[n + 2] = GeneratedBy(calls[k - 1])
          /\ c.parts[Len(c.parts)].kind = "text"
          /\ Len(c.parts[Len(c.parts)].text) > 0

C29_Witness ==
    /\ Len(calls) = 3
    /\ calls[3].stage = "quality-critique"
    /\ app.productImages = <<ImgB, ImgA>>
    /\ Len(calls[3].parts) = 5
    /\ calls[3].parts[1].data = <<"BBBB">>
    /\ calls[3].parts[2].data = <<"AAAA">>
    /\ calls[3].parts[4].data = <<"PNG2">>

-----------------------------------------------------------------------------
(* C30 *)

\* C30: every step keeps the entries of the App's log as they are and where
\* they are, adding entries at the end at most, except a step of
\* handleGenerate or handleApprove, which empties the log; so Continue
\* Anyway, Cancel and every feedback retry leave the entries in place.
C30_LogAppendOnly ==
    [][/\ ~IsPrefix(app.logs, app'.logs) =>
             /\ app'.logs = <<>>
             /\ HandleGenerate \/ HandleApprove
       /\ (HandleContinueAnyway \/ HandleCancelFromWarning
             \/ HandleRetryWithFeedback) => app'.logs = app.logs]_vars

\* the log after a feedback retry: the four entries of the first attempt
\* followed by the three of the retry
C30_Witness ==
    /\ attempts = 2
    /\ lastOutcome.kind = "returned"
    /\ Len(app.logs) = 7
    /\ StepsOf(app.logs) = <<1, 2, 3, 4, 1, 2, 3>>
    /\ app.logs[1].title = "Reference Image Quality Check"

-----------------------------------------------------------------------------
(* C31 *)

\* a replaceProductInImage invocation is pending: a handler is suspended at
\* one of its model calls
InvocationPending ==
    \E i \in InFlight : tasks[i].stage # "reference-quality"

\* a step in which replaceProductInImage is invoked
Invokes == attempts' = attempts + 1

\* the App's log at the moment replaceProductInImage is invoked in this step:
\* handleGenerate has set it to the gate's entry (setLogs([analysis.log]))
\* before it calls startGenerationProcess, the other handlers leave it alone
LogAtInvocation ==
    IF \E i \in InFlight : tasks[i].stage = "reference-quality"
    THEN <<gateVerdict'.log>>
    ELSE app.logs

\* C31: an invocation of replaceProductInImage that fails adds nothing to the
\* App's log: from the step that invokes it to the step in which it throws,
\* at the analysis stage or at the generation stage, the log stays what it
\* was when the invocation was made, the entries of the stages that had
\* completed included.
C31_FailureAddsNoEntries ==
    [][/\ (Invokes /\ lastOutcome'.kind # "returned")
             => app'.logs = LogAtInvocation
       /\ (InvocationPending /\ lastOutcome'.kind # "returned")
             => app'.logs = app.logs]_vars

\* a feedback retry whose generation call was answered without an image: the
\* log holds the four entries it held before the retry
C31_Witness ==
    /\ attempts = 2
    /\ lastOutcome.kind = "thrown"
    /\ StagesOf(2) = <<"feedback-analysis", "generation">>
    /\ Succeeded(CallsOf(2)[1])
    /\ CallsOf(2)[2].resp.kind = "ok"
    /\ NoImagePart(CallsOf(2)[2].resp)
    /\ StepsOf(app.logs) = <<1, 2, 3, 4>>
    /\ ~IsNull(app.error)

-----------------------------------------------------------------------------
(* C32 *)

\* the result fields the result panel displays
Displayed(st) == <<st.resultImage, st.resultText, st.qualityCheck>>

\* C32: a click on Retry with Feedback with feedback that is not empty after
\* trimming either invokes the pipeline, or reports an error, or leaves the
\* displayed result image, result text and critique as they are.
C32_RetryKeepsOrRuns ==
    [][(HandleRetryWithFeedback /\ Len(Trim(app.rejectionFeedback)) > 0)
          => \/ Invokes
             \/ ~IsNull(app'.error)
             \/ Displayed(app') = Displayed(app)]_vars

-----------------------------------------------------------------------------
(* C33 *)

\* the value is the one the latest invocation returned, or there is none
FromLatestOrEmpty(shown, returned) == IsNull(shown) \/ shown = returned

\* C33: whenever the result panel displays an image, that image is the one the
\* latest replaceProductInImage invocation returned, and the result text and
\* the critique held next to it are each the value the same invocation
\* returned or empty: nothing of an earlier attempt is left beside it.
C33_ResultOfOneInvocation ==
    ResultShown(app) =>
       /\ lastOutcome.kind = "returned"
       /\ ~IsNull(lastOutcome.result.image)
       /\ app.resultImage = Some(PngDataUrl(Val(lastOutcome.result.image)))
       /\ FromLatestOrEmpty(app.resultText, lastOutcome.result.text)
       /\ FromLatestOrEmpty(app.qualityCheck, lastOutcome.result.qualityCheck)

\* a retry that returned an image without text, after a first attempt that
\* returned an image with text: the panel shows the new image and no text
C33_Witness ==
    /\ ResultShown(app)
    /\ attempts = 2
    /\ \E k \in 1..Len(calls) :
          /\ calls[k].attempt = 1
          /\ calls[k].stage = "generation"
          /\ GenText \in TextsOf(calls[k].resp)
    /\ app.resultImage = Some(PngDataUrl(GenImage2))
    /\ IsNull(app.resultText)
    /\ ~IsNull(app.qualityCheck)

-----------------------------------------------------------------------------
(* C34 *)

\* C34: in every state the App reaches through the controls its UI offers, an
\* error that is not null comes with a result image that is null.
C34_ErrorExcludesResult ==
    ~IsNull(app.error) => IsNull(app.resultImage)

\* a feedback retry that failed after a first attempt had produced an image:
\* the error is held and the image of the first attempt is gone
C34_Witness ==
    /\ attempts = 2
    /\ lastOutcome.kind = "thrown"
    /\ \E k \in 1..Len(calls) :
          /\ calls[k].attempt = 1
          /\ calls[k].stage = "generation"
          /\ ~NoImagePart(calls[k].resp)
    /\ ~IsNull(app.error)
    /\ IsNull(app.resultImage)

-----------------------------------------------------------------------------
(* C35 *)

\* the entry analyzeReferenceImages returns for the quality gate
IsGateEntry(entry) ==
    entry.title = "Reference Image Quality Check" /\ entry.step = 1

\* C35: in every state the App's log holds at most one entry of the quality
\* gate, and a log that is not empty begins with it.
C35_OneGateEntryFirst ==
    /\ Cardinality({j \in 1..Len(app.logs) : IsGateEntry(app.logs[j])}) <= 1
    /\ Len(app.logs) > 0 => IsGateEntry(app.logs[1])

\* the log of a run continued at the warning and followed by a feedback
\* retry: the gate's entry, then the entries of the two attempts
C35_Witness ==
    /\ gateDecision = "continued"
    /\ attempts = 2
    /\ lastOutcome.kind = "returned"
    /\ Len(app.logs) = 7
    /\ IsGateEntry(app.logs[1])
    /\ \A j \in 2..7 : ~IsGateEntry(app.logs[j])

-----------------------------------------------------------------------------
(* C36 *)

\* C36: a click on Approve, in whatever state the result panel offers the
\* button, leaves the App in the state it has after construction: no
\* reference images, no target image, no result image, text or critique, no
\* error, an empty log, empty feedback, no warning, the rejection form and
\* the log panel closed, and the loading flag false.
C36_ApproveResets ==
    [][HandleApprove => app' = AppInit]_vars

\* the Approve button is offered after a feedback retry, with seven entries
\* in the log and feedback typed into the form before it was closed, and the
\* click leads to the initial state
C36_Witness ==
    /\ attempts = 2
    /\ Len(app.logs) = 7
    /\ Len(app.rejectionFeedback) > 0
    /\ ~IsNull(app.qualityCheck)
    /\ Len(app.productImages) > 0
    /\ ENABLED (HandleApprove /\ app' = AppInit)

-----------------------------------------------------------------------------
(* C37 *)

\* the fields of the App's state other than the warning flag and its text
FieldsBesideWarning == DOMAIN AppInit \ {"showImageWarning", "imageWarning"}

\* C37: a click on Cancel at the warning changes the warning flag and the
\* warning text only: the uploaded images, the log, which still holds the
\* gate's entry, the error, the result fields, the loading flag and every
\* other field are after the click what they were before it.
C37_CancelChangesWarningOnly ==
    [][HandleCancelFromWarning =>
          /\ \A field \in FieldsBesideWarning : app'[field] = app[field]
          /\ Len(app'.logs) = 1
          /\ IsGateEntry(app'.logs[1])]_vars

\* after Cancel at a warning: the flag is down, the text is empty, and the
\* log holds the entry of the gate that found the images unsuitable
C37_Witness ==
    /\ gateDecision = "cancelled"
    /\ ~app.showImageWarning
    /\ app.imageWarning = JString(<<>>)
    /\ Truthy(gateVerdict.reasoning)
    /\ app.logs = <<gateVerdict.log>>
    /\ ~IsNull(app.marketingImage)

-----------------------------------------------------------------------------
(* C38 *)

\* the text is empty or consists of whitespace only
Blank(text) == \A j \in 1..Len(text) : text[j] \in Whitespace

\* C38: a click on Retry with Feedback while the feedback is empty or
\* whitespace only issues no model call and changes nothing of the App's
\* state: the displayed result, the rejection form, the feedback and the log
\* stay as they were.
C38_BlankRetryIsNoOp ==
    [][(HandleRetryWithFeedback /\ Blank(app.rejectionFeedback))
          => /\ app' = app
             /\ calls' = calls
             /\ tasks' = tasks
             /\ attempts' = attempts]_vars

\* the rejection form is open on a displayed result with feedback of one
\* blank, and the Retry with Feedback button can be clicked
C38_Witness ==
    /\ ResultShown(app)
    /\ app.showRejectionForm
    /\ app.rejectionFeedback = <<" ">>
    /\ Len(app.logs) > 0
    /\ ENABLED HandleRetryWithFeedback


====
